---- MODULE Spec2Model ----
(***************************************************************************)
(* Model of the L3 order book of engine/src/matching/order_book.rs:        *)
(* two price-indexed maps of FIFO queues (bids, asks) and the id index,    *)
(* driven by OrderBook::process_order and OrderBook::cancel_order.         *)
(*                                                                         *)
(* Decimal prices and quantities are integers counting the smallest tick;  *)
(* the book only compares, subtracts and takes minima, all exact.          *)
(***************************************************************************)
EXTENDS Integers, Sequences, FiniteSets, TLC

\* ------------------------------------------------------------------ bounds
MaxPrice == 2
MaxQty == 2
MaxId == 2
MaxResting == 2

Prices == 1..MaxPrice
Quantities == 1..MaxQty
OrderIds == 1..MaxId

\* ------------------------------------------------------------- core types
Side == {"Bid", "Ask"}
OrderType == {"Limit", "Market", "ImmediateOrCancel", "FillOrKill", "PostOnly"}
OrderStatus == {"Filled", "PartiallyFilled", "Queued", "Cancelled", "Rejected"}

Order == [id : OrderIds, side : Side, order_type : OrderType,
          price : Prices, quantity : Quantities]

VARIABLES
    bids,          \* BTreeMap<Decimal, VecDeque<Order>>: price -> FIFO queue
    asks,          \* BTreeMap<Decimal, VecDeque<Order>>
    order_index,   \* HashMap<u64, OrderLocation>: id -> [price, side]
    result,        \* what the last call was given and what it returned
    open_qty       \* history: quantity submitted, less the remainders that
                   \* cancel_order removed, less twice the quantity traded

\* engine/src/matching/engine.rs: the book behind MatchingEngine
VARIABLES
    eng_bids,      \* BTreeMap<Decimal, VecDeque<Order>>
    eng_asks,      \* BTreeMap<Decimal, VecDeque<Order>>
    eng_result     \* the MatchingResult of the last MatchingEngine::process_order

\* engine/tests/recovery_test.rs: a run that is recorded and replayed
VARIABLES
    cmd_log,       \* the commands applied to the book so far, in order
    trade_stream,  \* the trades of the recorded run, each with executed_at
    clock,         \* the wall clock, chrono::Utc::now()
    replayed       \* the book and the trades the replay of cmd_log produced

\* engine/src/risk: the stateless checks
VARIABLES
    risk_call      \* the last call of a check: its inputs and what it returned

\* engine/src/risk/mod.rs and circuit_breaker.rs
VARIABLES
    GLOBAL_EMERGENCY_STOP,  \* the process-wide kill switch
    breaker_config,         \* BreakerConfig, fixed at CircuitBreaker::new
    is_tripped,             \* CircuitBreaker.is_tripped, the hot-path flag
    breaker,                \* InternalState, behind the mutex
    instant,                \* Instant::now(), in ticks of 30 s
    breaker_call            \* the last call on the breaker and its result,
                            \* with the losing results recorded in a row

\* engine/src/matching/match_engine.rs
VARIABLES
    books,          \* MatchEngine.books: symbol id -> OrderBook
    engine_call     \* the last call on the MatchEngine and what it returned

\* engine/src/matching/inventory_mgr.rs
VARIABLES
    balances,       \* InventoryManager.balances: asset -> AssetBalance
    inventory_call  \* the last call on the InventoryManager and its result

\* engine/src/risk/engine.rs
VARIABLES
    risk_engine     \* RiskEngine: config and current_loss

\* shield/sentinel/pulse_monitor.rs
VARIABLES
    registry,       \* PulseMonitor.registry: name -> (last_beat, limit)
    now_ms,         \* utils::time::now_ms(), the wall clock in ms
    pulse_call      \* the last health check, who ran it and its report

\* engine/src/transport/shared_memory.rs: the ring in the mapped file
VARIABLES
    write_cursor,   \* ShmHeader.write_cursor, stored by the producer
    read_cursor,    \* ShmHeader.read_cursor, stored by the consumer
    sequence,       \* ShmHeader.sequence
    slots,          \* the DataSlot array: index -> [length, payload]
    producer,       \* the thread inside write_bytes: its position and locals
    consumer,       \* the reader of the ring: the write_cursor it last saw
    unread          \* history: slots published and not yet consumed

\* data/transport/buffers/event_queue_mgr.rs
VARIABLES
    channel,         \* the events held by the mpsc channel, oldest first
    capacity,        \* EventQueueManager.capacity, the bound of the channel
    enqueued_count,  \* EventQueueManager.enqueued_count
    dropped_count,   \* EventQueueManager.dropped_count
    tasks,           \* the callers of push_safe and push_fast: their position
    receiver_taken   \* take_receiver has consumed the manager

\* engine/src/models/order.rs
VARIABLES
    order_entity    \* an Order and the last call made on it

\* engine/src/matching/latency_tracker.rs
VARIABLES
    stats,          \* LatencyTracker.stats: metric -> LatencyBuckets
    samples         \* history: metric -> the durations recorded, in order

\* callers of the order_book.rs book that never reuse an order id
VARIABLES
    submitted      \* history: the ids of the orders handed to process_order

book_vars == <<bids, asks, order_index, result, open_qty>>
eng_vars == <<eng_bids, eng_asks, eng_result>>
replay_vars == <<cmd_log, trade_stream, clock, replayed>>
breaker_vars == <<breaker_config, is_tripped, breaker, instant, breaker_call>>
facade_vars == <<books, engine_call>>
inventory_vars == <<balances, inventory_call>>
pulse_vars == <<registry, now_ms, pulse_call>>
queue_vars == <<channel, capacity, enqueued_count, dropped_count, tasks,
               receiver_taken>>
order_vars == <<order_entity>>
latency_vars == <<stats, samples>>
shm_vars == <<write_cursor, read_cursor, sequence, slots, producer, consumer,
             unread>>

vars == <<book_vars, eng_vars, replay_vars, risk_call,
          GLOBAL_EMERGENCY_STOP, breaker_vars, facade_vars,
          inventory_vars, risk_engine, pulse_vars,
    shm_vars,
    queue_vars,
    order_vars,
    latency_vars,
    submitted>>

\* what the calls on the order_book.rs book leave alone
outside_book == <<eng_vars, replay_vars, risk_call,
                  GLOBAL_EMERGENCY_STOP, breaker_vars, facade_vars,
                  inventory_vars, risk_engine, pulse_vars,
    shm_vars,
    queue_vars,
    order_vars,
    latency_vars,
    submitted>>

\* what MatchingEngine::process_order leaves alone
outside_eng == <<book_vars, replay_vars, risk_call,
                 GLOBAL_EMERGENCY_STOP, breaker_vars, facade_vars,
                  inventory_vars, risk_engine, pulse_vars,
    shm_vars,
    queue_vars,
    order_vars,
    latency_vars,
    submitted>>

\* what a recorded run and its replay leave alone
outside_replay == <<eng_vars, risk_call, GLOBAL_EMERGENCY_STOP, breaker_vars,
                    facade_vars, inventory_vars, risk_engine, pulse_vars,
    shm_vars,
    queue_vars,
    order_vars,
    latency_vars,
    submitted>>

\* what the stateless checks leave alone
outside_risk == <<book_vars, eng_vars, replay_vars,
                  GLOBAL_EMERGENCY_STOP, breaker_vars, facade_vars,
                  inventory_vars, risk_engine, pulse_vars,
    shm_vars,
    queue_vars,
    order_vars,
    latency_vars,
    submitted>>

\* what the circuit breaker leaves alone
outside_breaker == <<book_vars, eng_vars, replay_vars, risk_call, facade_vars,
                     inventory_vars, risk_engine, pulse_vars,
    shm_vars,
    queue_vars,
    order_vars,
    latency_vars,
    submitted>>

\* what the MatchEngine leaves alone
outside_facade == <<book_vars, eng_vars, replay_vars, risk_call, breaker_vars,
                    inventory_vars, risk_engine, pulse_vars,
    shm_vars,
    queue_vars,
    order_vars,
    latency_vars,
    submitted>>

\* what the PulseMonitor leaves alone
outside_pulse == <<book_vars, eng_vars, replay_vars, risk_call, breaker_vars,
                   facade_vars, inventory_vars, risk_engine,
    shm_vars,
    queue_vars,
    order_vars,
    latency_vars,
    submitted>>

\* what the RiskEngine leaves alone besides the result of its call
outside_risk_engine == <<book_vars, eng_vars, replay_vars,
                         GLOBAL_EMERGENCY_STOP, breaker_vars, facade_vars,
                         inventory_vars, pulse_vars,
    shm_vars,
    queue_vars,
    order_vars,
    latency_vars,
    submitted>>

\* what the InventoryManager leaves alone
outside_inventory == <<book_vars, eng_vars, replay_vars, risk_call,
                       GLOBAL_EMERGENCY_STOP, breaker_vars, facade_vars,
                       risk_engine, pulse_vars,
    shm_vars,
    queue_vars,
    order_vars,
    latency_vars,
    submitted>>

\* ---------------------------------------------------------------- helpers
Min(a, b) == IF a <= b THEN a ELSE b

EmptyMap == <<>>

\* map without key k (BTreeMap::remove / HashMap::remove)
RemoveKey(m, k) == [x \in DOMAIN m \ {k} |-> m[x]]

\* map with key k set to v (insert / entry().or_insert)
PutKey(m, k, v) == [x \in DOMAIN m \cup {k} |-> IF x = k THEN v ELSE m[x]]

RECURSIVE SumSeq(_)
SumSeq(s) == IF s = <<>> THEN 0 ELSE Head(s) + SumSeq(Tail(s))

\* position of the first element of q whose id is order_id, 0 if none
FirstPos(q, order_id) ==
    IF \E i \in 1..Len(q) : q[i].id = order_id
    THEN CHOOSE i \in 1..Len(q) :
            /\ q[i].id = order_id
            /\ \A j \in 1..(i - 1) : q[j].id # order_id
    ELSE 0

\* q without its i-th element (VecDeque::remove)
RemoveAt(q, i) == [j \in 1..(Len(q) - 1) |-> IF j < i THEN q[j] ELSE q[j + 1]]

\* BTreeMap::first_entry / last_entry keys
first_key(m) == CHOOSE p \in DOMAIN m : \A q \in DOMAIN m : p <= q
last_key(m) == CHOOSE p \in DOMAIN m : \A q \in DOMAIN m : p >= q

\* ------------------------------------------------------- matching, inner
\* seeded fault: the larger of the two quantities
matched_qty_max(taker_qty, maker_qty) == IF taker_qty >= maker_qty THEN taker_qty ELSE maker_qty

\* seeded fault: every match is for one unit, whatever the two orders hold
matched_qty_unit(taker_qty, maker_qty) == 1

\* std::cmp::min(order.quantity, best.quantity)
matched_qty(taker_qty, maker_qty) == Min(taker_qty, maker_qty)

\* seeded fault: the trade is priced at the aggressor's limit
trade_price_taker(level_price, order_price) == order_price

\* the trade is priced at the level's key, the maker's price
trade_price(level_price, order_price) == level_price

\* seeded fault: the loop works on the newest order of the level
front_pos_back(queue) == Len(queue)

\* the maker the loop works on: queue.front_mut() / pop_front()
front_pos(queue) == 1

\* The inner while loop over one level's queue.
\* st = [queue, qty, trades, index]: the level's queue, the taker's
\* remaining quantity, the trades so far and the id index.
\* seeded fault: a maker that is filled and popped stays in the id index
unindex_kept(index, id) == index

\* order_index.remove(&removed.id) for the maker popped from the queue
unindex(index, id) == RemoveKey(index, id)

RECURSIVE fill_queue(_, _, _, _)
fill_queue(order, taker_side, level_price, st) ==
    IF st.qty > 0 /\ st.queue # <<>>
    THEN LET pos == front_pos(st.queue)
             best == st.queue[pos]
             m == matched_qty(st.qty, best.quantity)
             trade == [taker_order_id |-> order.id,
                       maker_order_id |-> best.id,
                       price |-> trade_price(level_price, order.price),
                       quantity |-> m,
                       taker_side |-> taker_side]
             left == best.quantity - m
             touched == [st.queue EXCEPT ![pos] = [best EXCEPT !.quantity = left]]
         IN fill_queue(order, taker_side, level_price,
                [queue |-> IF left = 0 THEN RemoveAt(touched, pos) ELSE touched,
                 qty |-> st.qty - m,
                 trades |-> Append(st.trades, trade),
                 index |-> IF left = 0
                           THEN unindex(st.index, best.id)
                           ELSE st.index])
    ELSE st

\* ------------------------------------------------------- matching, outer
\* seeded fault: an ask at exactly the bid's limit does not match
bid_crosses_strict(ask_price, order_price) == ask_price < order_price

\* the limit test of match_bid: the loop breaks when ask_price > order.price
bid_crosses(ask_price, order_price) == ~(ask_price > order_price)

\* the limit test of match_ask: the loop breaks when bid_price < order.price
ask_crosses(bid_price, order_price) == ~(bid_price < order_price)

\* seeded fault: an aggressing Bid starts at the highest ask
best_ask_key_last(book) == last_key(book)

\* the level an aggressing Bid looks at: asks.first_entry()
best_ask_key(book) == first_key(book)

\* the level an aggressing Ask looks at: bids.last_entry()
best_bid_key(book) == last_key(book)

\* the level after the inner loop: removed when its queue is empty
level_cleanup(book, price, queue) ==
    IF queue = <<>> THEN RemoveKey(book, price) ELSE [book EXCEPT ![price] = queue]

\* st = [book, qty, trades, index]: the opposite side, the taker's remaining
\* quantity, the trades so far and the id index.
RECURSIVE match_bid(_, _)
match_bid(order, st) ==
    IF st.qty > 0 /\ DOMAIN st.book # {}
    THEN LET ask_price == best_ask_key(st.book)
         IN IF ~bid_crosses(ask_price, order.price)
            THEN st
            ELSE LET r == fill_queue(order, "Bid", ask_price,
                                     [queue |-> st.book[ask_price], qty |-> st.qty,
                                      trades |-> st.trades, index |-> st.index])
                 IN match_bid(order,
                        [book |-> level_cleanup(st.book, ask_price, r.queue),
                         qty |-> r.qty, trades |-> r.trades, index |-> r.index])
    ELSE st

RECURSIVE match_ask(_, _)
match_ask(order, st) ==
    IF st.qty > 0 /\ DOMAIN st.book # {}
    THEN LET bid_price == best_bid_key(st.book)
         IN IF ~ask_crosses(bid_price, order.price)
            THEN st
            ELSE LET r == fill_queue(order, "Ask", bid_price,
                                     [queue |-> st.book[bid_price], qty |-> st.qty,
                                      trades |-> st.trades, index |-> st.index])
                 IN match_ask(order,
                        [book |-> level_cleanup(st.book, bid_price, r.queue),
                         qty |-> r.qty, trades |-> r.trades, index |-> r.index])
    ELSE st

\* ---------------------------------------------------------- resting, cancel
\* seeded fault: the order is put at the head of its level
add_limit_order_front(bk, order) ==
    LET side_book == IF order.side = "Bid" THEN bk.bids ELSE bk.asks
        queue == IF order.price \in DOMAIN side_book
                 THEN side_book[order.price] ELSE <<>>
        put == PutKey(side_book, order.price, <<order>> \o queue)
    IN [bids |-> IF order.side = "Bid" THEN put ELSE bk.bids,
        asks |-> IF order.side = "Ask" THEN put ELSE bk.asks,
        index |-> PutKey(bk.index, order.id,
                         [price |-> order.price, side |-> order.side])]

\* bk = [bids, asks, index]
add_limit_order(bk, order) ==
    LET side_book == IF order.side = "Bid" THEN bk.bids ELSE bk.asks
        queue == IF order.price \in DOMAIN side_book
                 THEN side_book[order.price] ELSE <<>>
        put == PutKey(side_book, order.price, Append(queue, order))
    IN [bids |-> IF order.side = "Bid" THEN put ELSE bk.bids,
        asks |-> IF order.side = "Ask" THEN put ELSE bk.asks,
        index |-> PutKey(bk.index, order.id,
                         [price |-> order.price, side |-> order.side])]

\* the status process_order reports for a taker with a remainder
resting_status(trades) == IF trades = <<>> THEN "Queued" ELSE "PartiallyFilled"

\* whether process_order rests the remainder: the code tests the quantity only
rests_remainder(order, qty) == qty > 0

\* returns [bids, asks, index, trades, remaining_qty, status]
process_order(bk, order) ==
    LET m == IF order.side = "Bid"
             THEN match_bid(order, [book |-> bk.asks, qty |-> order.quantity,
                                    trades |-> <<>>, index |-> bk.index])
             ELSE match_ask(order, [book |-> bk.bids, qty |-> order.quantity,
                                    trades |-> <<>>, index |-> bk.index])
        matched == [bids |-> IF order.side = "Bid" THEN bk.bids ELSE m.book,
                    asks |-> IF order.side = "Bid" THEN m.book ELSE bk.asks,
                    index |-> m.index]
        rests == rests_remainder(order, m.qty)
        after == IF rests
                 THEN add_limit_order(matched, [order EXCEPT !.quantity = m.qty])
                 ELSE matched
    IN [bids |-> after.bids, asks |-> after.asks, index |-> after.index,
        trades |-> m.trades, remaining_qty |-> m.qty,
        status |-> IF rests THEN resting_status(m.trades) ELSE "Filled"]

\* seeded fault: a cancel that found nothing reports success
cancel_miss_true(bk) ==
    [bids |-> bk.bids, asks |-> bk.asks, index |-> bk.index,
     ok |-> TRUE, removed |-> 0]

\* what cancel_order returns when it removed no order: false
cancel_miss(bk) ==
    [bids |-> bk.bids, asks |-> bk.asks, index |-> bk.index,
     ok |-> FALSE, removed |-> 0]

\* returns [bids, asks, index, ok, removed]; removed is the quantity that
\* left the book with the cancelled order
\* seeded fault: the level of the cancelled order is kept when it empties
cancel_cleanup_kept(book, price, queue) == [book EXCEPT ![price] = queue]

\* cancel_order, after queue.remove(idx): the price is removed from the side
\* when its queue is empty
cancel_cleanup(book, price, queue) == level_cleanup(book, price, queue)

cancel_order(bk, order_id) ==
    IF order_id \notin DOMAIN bk.index
    THEN cancel_miss(bk)
    ELSE LET loc == bk.index[order_id]
             bk2 == [bk EXCEPT !.index = RemoveKey(bk.index, order_id)]
             side_book == IF loc.side = "Bid" THEN bk.bids ELSE bk.asks
         IN IF loc.price \notin DOMAIN side_book
            THEN cancel_miss(bk2)
            ELSE LET queue == side_book[loc.price]
                     idx == FirstPos(queue, order_id)
                 IN IF idx = 0
                    THEN cancel_miss(bk2)
                    ELSE LET book2 == cancel_cleanup(side_book, loc.price,
                                                     RemoveAt(queue, idx))
                         IN [bids |-> IF loc.side = "Bid" THEN book2 ELSE bk.bids,
                             asks |-> IF loc.side = "Ask" THEN book2 ELSE bk.asks,
                             index |-> bk2.index,
                             ok |-> TRUE,
                             removed |-> queue[idx].quantity]

\* ------------------------------------------ engine.rs: MatchingEngine
\* the order types api/mod.rs builds orders of
EngOrderType == {"Market", "Limit"}

EngSide == {"Buy", "Sell"}

\* price: None (api/mod.rs turns an empty or "0" price into None)
NoPrice == 0

\* Order::new: nothing executed, avg_fill_price None, status Created
Order_new(id, side, order_type, qty, price) ==
    [id |-> id, side |-> side, order_type |-> order_type,
     original_qty |-> qty, executed_qty |-> 0, price |-> price,
     avg_fill_price |-> <<>>, status |-> "Created"]

is_active(order) == order.status \in {"New", "PartiallyFilled", "PendingNew"}

is_closed(order) == ~is_active(order) /\ order.status # "Created"

\* an order after match_qty more of it is executed
eng_fill(order, match_qty) ==
    LET done == order.executed_qty + match_qty
    IN [order EXCEPT !.executed_qty = done,
                     !.status = IF done >= order.original_qty
                                THEN "Filled" ELSE "PartiallyFilled"]

\* the body of the while loop once the best level is found: the front
\* maker and the taker are filled, a trade is pushed, a closed front
\* maker is popped and empty levels are dropped.
\* st = [book, order, trades]
eng_match_level(price, st) ==
    LET queue == st.book[price]
        maker == queue[1]
        match_qty == Min(st.order.original_qty - st.order.executed_qty,
                         maker.original_qty - maker.executed_qty)
        maker2 == eng_fill(maker, match_qty)
        order2 == eng_fill(st.order, match_qty)
        trade == [price |-> price, quantity |-> match_qty,
                  side |-> st.order.side,
                  maker_order_id |-> maker.id,
                  taker_order_id |-> st.order.id]
        queue2 == IF is_closed(maker2)
                  THEN Tail(queue) ELSE [queue EXCEPT ![1] = maker2]
    IN [book |-> level_cleanup(st.book, price, queue2),
        order |-> order2,
        trades |-> Append(st.trades, trade)]

RECURSIVE eng_match_bid(_)
eng_match_bid(st) ==
    IF is_active(st.order) /\ DOMAIN st.book # {}
    THEN LET price == first_key(st.book)
         IN IF st.order.price # NoPrice /\ price > st.order.price
            THEN st
            ELSE eng_match_bid(eng_match_level(price, st))
    ELSE st

RECURSIVE eng_match_ask(_)
eng_match_ask(st) ==
    IF is_active(st.order) /\ DOMAIN st.book # {}
    THEN LET price == last_key(st.book)
         IN IF st.order.price # NoPrice /\ price < st.order.price
            THEN st
            ELSE eng_match_ask(eng_match_level(price, st))
    ELSE st

\* bk = [bids, asks]; an order without a price is dropped
eng_add_limit_order(bk, order) ==
    IF order.price = NoPrice THEN bk
    ELSE LET side_book == IF order.side = "Buy" THEN bk.bids ELSE bk.asks
             queue == IF order.price \in DOMAIN side_book
                      THEN side_book[order.price] ELSE <<>>
             put == PutKey(side_book, order.price, Append(queue, order))
         IN [bids |-> IF order.side = "Buy" THEN put ELSE bk.bids,
             asks |-> IF order.side = "Sell" THEN put ELSE bk.asks]

\* OrderBook::process of engine.rs; returns [bids, asks, order, trades]
eng_process(bk, order) ==
    LET m == IF order.side = "Buy"
             THEN eng_match_bid([book |-> bk.asks, order |-> order, trades |-> <<>>])
             ELSE eng_match_ask([book |-> bk.bids, order |-> order, trades |-> <<>>])
        matched == [bids |-> IF order.side = "Buy" THEN bk.bids ELSE m.book,
                    asks |-> IF order.side = "Buy" THEN m.book ELSE bk.asks]
        rests == ~is_closed(m.order) /\ m.order.order_type = "Limit"
        after == IF rests THEN eng_add_limit_order(matched, m.order) ELSE matched
    IN [bids |-> after.bids, asks |-> after.asks,
        order |-> IF ~is_closed(m.order) /\ m.order.order_type = "Market"
                  THEN [m.order EXCEPT !.status = "Canceled"]
                  ELSE m.order,
        trades |-> m.trades]

\* MatchingEngine::new: no book yet; process_order opens an empty one
EngInit ==
    /\ eng_bids = EmptyMap
    /\ eng_asks = EmptyMap
    /\ eng_result = [op |-> "new",
                     order |-> Order_new(0, "Buy", "Limit", 0, NoPrice),
                     trades |-> <<>>]

\* ------------------------------------------------- recording and replay
MaxLog == 3
MaxClock == 1

\* the trades of one call as they are emitted: executed_at is the wall
\* clock read when the trade is pushed
Stamped(trades, now) ==
    [i \in 1..Len(trades) |->
        [f \in DOMAIN trades[i] \cup {"executed_at"} |->
            IF f = "executed_at" THEN now ELSE trades[i][f]]]

\* the replay loop: every logged command applied in order to the book of
\* st, at the time now.  st = [book, trades]
RECURSIVE replay(_, _, _)
replay(log, st, now) ==
    IF log = <<>> THEN st
    ELSE LET c == Head(log)
         IN IF c.kind = "PlaceOrder"
            THEN LET r == process_order(st.book, c.order)
                 IN replay(Tail(log),
                           [book |-> [bids |-> r.bids, asks |-> r.asks,
                                      index |-> r.index],
                            trades |-> st.trades \o Stamped(r.trades, now)],
                           now)
            ELSE LET r == cancel_order(st.book, c.order_id)
                 IN replay(Tail(log),
                           [book |-> [bids |-> r.bids, asks |-> r.asks,
                                      index |-> r.index],
                            trades |-> st.trades],
                           now)

EmptyBook == [bids |-> EmptyMap, asks |-> EmptyMap, index |-> EmptyMap]

ReplayInit ==
    /\ cmd_log = <<>>
    /\ trade_stream = <<>>
    /\ clock = 0
    /\ replayed = [done |-> FALSE, book |-> EmptyBook, trades |-> <<>>]

\* ---------------------------------------- risk: PreTradeCheck::validate
MaxRiskPrice == 4
MaxRiskQty == 3

Abs(x) == IF x < 0 THEN -x ELSE x

RECURSIVE GCD(_, _)
GCD(a, b) == IF b = 0 THEN a ELSE GCD(b, a % b)

\* the Decimal quotient n / d of two Decimals, d > 0, n >= 0, kept exact as
\* a fraction in lowest terms
DecDiv(n, d) == LET g == GCD(n, d) IN [num |-> n \div g, den |-> d \div g]

\* a > b for two such quotients
DecGt(a, b) == a.num * b.den > b.num * a.den

\* Option<Decimal>: None is <<>>, Some(p) is <<p>>
None == <<>>
Some(p) == <<p>>

\* PreTradeCheck::reject: the reason goes to the log only
reject(reason, value) ==
    [ok |-> FALSE, rule |-> "PRE_TRADE_VALIDATION",
     limit |-> "See Constraints", actual |-> ToString(value)]

\* the price the notional is estimated with
estimated_price(order, reference_price) ==
    IF order.price > 0 THEN order.price
    ELSE IF reference_price = None THEN 1 ELSE reference_price[1]

\* seeded fault: a deviation equal to the limit is a violation too
band_exceeded_at(deviation, max_price_deviation) ==
    ~DecGt(max_price_deviation, deviation)

\* the test of the price band: deviation > max_price_deviation
band_exceeded(deviation, max_price_deviation) ==
    DecGt(deviation, max_price_deviation)

\* returns [ok, rule, limit, actual]; c is the TradeConstraints
validate(c, order, reference_price) ==
    IF order.quantity <= 0
    THEN reject("Zero or Negative Quantity", order.quantity)
    ELSE IF order.order_type = "Limit" /\ order.price <= 0
    THEN reject("Zero or Negative Price for Limit Order", order.price)
    ELSE IF order.quantity < c.min_quantity
    THEN reject("Quantity below minimum allowed", order.quantity)
    ELSE IF order.quantity > c.max_quantity
    THEN reject("Quantity exceeds maximum allowed", order.quantity)
    ELSE LET notional == estimated_price(order, reference_price) * order.quantity
         IN IF notional < c.min_notional
            THEN reject("Order value too small (Dust)", notional)
            ELSE IF notional > c.max_notional
            THEN reject("FAT FINGER PROTECTION: Order value too high", notional)
            ELSE IF /\ reference_price # None
                    /\ reference_price[1] > 0
                    /\ order.order_type = "Limit"
                    /\ band_exceeded(DecDiv(Abs(order.price - reference_price[1]),
                                            reference_price[1]),
                                     c.max_price_deviation)
            THEN [ok |-> FALSE, rule |-> "PRICE_BAND",
                  limit |-> ToString(c.max_price_deviation),
                  actual |-> ToString(DecDiv(Abs(order.price - reference_price[1]),
                                             reference_price[1]))]
            ELSE [ok |-> TRUE, rule |-> "", limit |-> "", actual |-> ""]

\* the orders, reference prices and constraints the check is called with
RiskOrders ==
    [order_type : {"Limit", "Market"}, price : -1..MaxRiskPrice,
     quantity : 0..MaxRiskQty]

ReferencePrices == {None} \cup {Some(p) : p \in 0..MaxRiskPrice}

TradeConstraints ==
    [min_quantity : {1}, max_quantity : {2}, min_notional : {2},
     max_notional : {6},
     max_price_deviation : {DecDiv(1, 2), DecDiv(1, 1)}]

NoCall == [op |-> "none"]

RiskInit == risk_call = NoCall

\* -------------------------------------- risk: MarginGuard::check_new_order
MaxEquity == 2
MaxNotional == 4

\* n / e rounded to two decimal places, in hundredths: Decimal::round_dp
\* rounds a midpoint to the even neighbour.  e # 0
round_dp2(n, e) ==
    LET nn == IF e < 0 THEN -n ELSE n
        ee == Abs(e)
        a == Abs(nn) * 100
        q == a \div ee
        r == a % ee
        up == IF 2 * r > ee \/ (2 * r = ee /\ q % 2 = 1) THEN q + 1 ELSE q
    IN IF nn < 0 THEN -up ELSE up

\* seeded fault: a projected leverage equal to the maximum is refused
leverage_exceeded_at(projected_notional, current_equity, max_global_leverage) ==
    IF current_equity > 0
    THEN projected_notional >= max_global_leverage * current_equity
    ELSE projected_notional <= max_global_leverage * current_equity

\* projected_notional / current_equity > max_global_leverage, for an
\* equity that is not zero: the quotient is exact, so the test is the one
\* on the products, turned round when the divisor is negative
leverage_exceeded(projected_notional, current_equity, max_global_leverage) ==
    IF current_equity > 0
    THEN projected_notional > max_global_leverage * current_equity
    ELSE projected_notional < max_global_leverage * current_equity

\* returns [ok, rule, limit, actual]; actual of a leverage violation is in
\* hundredths
check_new_order(config, current_equity, current_position_notional, new_order_notional) ==
    LET projected_notional == current_position_notional + new_order_notional
    IN IF current_equity = 0
       THEN [ok |-> FALSE, rule |-> "Zero Equity", limit |-> "0", actual |-> "0"]
       ELSE IF leverage_exceeded(projected_notional, current_equity,
                                 config.max_global_leverage)
       THEN [ok |-> FALSE, rule |-> "MAX_LEVERAGE_EXCEEDED",
             limit |-> ToString(config.max_global_leverage),
             actual |-> ToString(round_dp2(projected_notional, current_equity))]
       ELSE [ok |-> TRUE, rule |-> "", limit |-> "", actual |-> ""]

MarginConfig == [max_global_leverage : {1, 2}]

Equities == -1..MaxEquity
Notionals == 0..MaxNotional

\* ------------------------------------------------ risk: CircuitBreaker
MaxNow == 3
MaxLoss == 3
MaxErrors == 3
MaxPnl == 2

\* Duration::from_secs(60), the rolling window, in ticks of 30 s
WindowTicks == 2

BreakerConfigs ==
    [max_drawdown_per_minute : 1..(MaxLoss - 1),
     max_consecutive_errors : 1..(MaxErrors - 1),
     cooldown_period : {1}]

\* st = [tripped, stop, state]: is_tripped, GLOBAL_EMERGENCY_STOP and the
\* InternalState
\* seeded fault: the trip is recorded in the state but the hot-path flag is
\* not stored
trip_breaker_unflagged(st, t) ==
    [tripped |-> st.tripped,
     stop |-> TRUE,
     state |-> [st.state EXCEPT !.status = "Open", !.last_trip_time = Some(t)]]

trip_breaker(st, t) ==
    [tripped |-> TRUE,
     stop |-> TRUE,
     state |-> [st.state EXCEPT !.status = "Open", !.last_trip_time = Some(t)]]

\* seeded fault: the breaker trips one error late
error_storm_late(consecutive_errors, max_consecutive_errors) ==
    consecutive_errors > max_consecutive_errors

\* the trip test of record_error
error_storm(consecutive_errors, max_consecutive_errors) ==
    consecutive_errors >= max_consecutive_errors

record_error(config, st, t) ==
    LET counted == [st EXCEPT !.state.consecutive_errors = @ + 1]
    IN IF error_storm(counted.state.consecutive_errors,
                      config.max_consecutive_errors)
       THEN trip_breaker(counted, t)
       ELSE counted

\* seeded fault: a loss equal to the limit already trips
drawdown_exceeded_at(accumulated_loss, max_drawdown_per_minute) ==
    accumulated_loss >= max_drawdown_per_minute

\* the trip test of record_pnl
drawdown_exceeded(accumulated_loss, max_drawdown_per_minute) ==
    accumulated_loss > max_drawdown_per_minute

record_pnl(config, st, pnl, t) ==
    LET rolled == IF t - st.state.window_start > WindowTicks
                  THEN [st EXCEPT !.state.window_start = t,
                                  !.state.accumulated_loss = 0]
                  ELSE st
    IN IF pnl < 0
       THEN LET lost == [rolled EXCEPT !.state.accumulated_loss = @ + Abs(pnl)]
            IN IF drawdown_exceeded(lost.state.accumulated_loss,
                                    config.max_drawdown_per_minute)
               THEN trip_breaker(lost, t)
               ELSE lost
       ELSE [rolled EXCEPT !.state.consecutive_errors = 0]

manual_reset(st, t) ==
    IF st.state.status # "Open" THEN st
    ELSE [st EXCEPT !.state.status = "Closed",
                    !.state.accumulated_loss = 0,
                    !.state.consecutive_errors = 0,
                    !.state.window_start = t,
                    !.tripped = FALSE]

\* returns [ok, rule]
ensure_closed(tripped) ==
    IF tripped THEN [ok |-> FALSE, rule |-> "CIRCUIT_BREAKER_TRIPPED"]
    ELSE [ok |-> TRUE, rule |-> ""]

\* CircuitBreaker::new: [tripped, state] of a fresh breaker
CircuitBreaker_new(t) ==
    [tripped |-> FALSE,
     state |-> [status |-> "Closed", last_trip_time |-> None,
                window_start |-> t, accumulated_loss |-> 0,
                consecutive_errors |-> 0]]

\* the process starts with one breaker, built from the tightest configuration
BreakerInit ==
    /\ breaker_config = [max_drawdown_per_minute |-> 1,
                         max_consecutive_errors |-> 1,
                         cooldown_period |-> 1]
    /\ is_tripped = CircuitBreaker_new(0).tripped
    /\ breaker = CircuitBreaker_new(0).state
    /\ instant = 0
    /\ breaker_call = [op |-> "new", ok |-> TRUE, rule |-> "", pnl |-> 0,
                        losses |-> 0]

\* ------------------------------------------------- matching: MatchEngine
SymbolIds == {1, 2}
MaxEnginePrice == 1

\* the orders a caller can hand to the facade, sound or not
EngineOrders ==
    [id : OrderIds, side : Side, order_type : {"Limit"},
     price : (-1)..MaxEnginePrice, quantity : 0..MaxQty,
     symbol_id : SymbolIds]

\* Order::validate
Order_validate(order) == order.quantity > 0 /\ order.price >= 0

\* the records MatchEngine appends to a log: it has no log and appends none
wal == <<>>

\* what a call hands back: Ok(value) or Err(error), with the trades of an
\* Ok(MatchingResult)
Returned(op, ok, err, trades) ==
    [op |-> op, ok |-> ok, err |-> err, trades |-> trades]

\* returns [books, ok, err]
create_market(bks, symbol_id) ==
    IF symbol_id \in DOMAIN bks
    THEN [books |-> bks, ok |-> FALSE, err |-> "ConfigMissing"]
    ELSE [books |-> PutKey(bks, symbol_id, EmptyBook), ok |-> TRUE, err |-> ""]

\* returns [books, ok, err, trades]
place_limit_order(bks, order) ==
    IF ~Order_validate(order)
    THEN [books |-> bks, ok |-> FALSE, err |-> "MathError", trades |-> <<>>]
    ELSE IF order.symbol_id \notin DOMAIN bks
    THEN [books |-> bks, ok |-> FALSE, err |-> "UnknownAsset", trades |-> <<>>]
    ELSE LET r == process_order(bks[order.symbol_id], order)
         IN [books |-> [bks EXCEPT ![order.symbol_id] =
                           [bids |-> r.bids, asks |-> r.asks, index |-> r.index]],
             ok |-> TRUE, err |-> "", trades |-> r.trades]

\* returns [books, ok, err, success]
MatchEngine_cancel_order(bks, symbol_id, order_id) ==
    IF symbol_id \notin DOMAIN bks
    THEN [books |-> bks, ok |-> FALSE, err |-> "UnknownAsset", success |-> FALSE]
    ELSE LET r == cancel_order(bks[symbol_id], order_id)
         IN [books |-> [bks EXCEPT ![symbol_id] =
                           [bids |-> r.bids, asks |-> r.asks, index |-> r.index]],
             ok |-> TRUE, err |-> "", success |-> r.ok]

\* MatchEngine::new
MatchEngineInit ==
    /\ books = EmptyMap
    /\ engine_call = Returned("new", TRUE, "", <<>>)

\* ---------------------------------------------- matching: InventoryManager
MaxAmount == 2
MaxTradePrice == 2
MaxFee == 1
MaxAvgDen == 2

Assets == {"USD", "BTC"}

\* AssetBalance::new
AssetBalance_new(name) ==
    [asset_name |-> name, total |-> 0, locked |-> 0,
     avg_entry_price |-> DecDiv(0, 1)]

\* AssetBalance::available
available(entry) == entry.total - entry.locked

\* balances.entry(asset).or_insert_with(|| AssetBalance::new(asset))
or_insert(bal, asset) ==
    IF asset \in DOMAIN bal THEN bal ELSE PutKey(bal, asset, AssetBalance_new(asset))

\* [balances, ok, rule] of a call that went through
InventoryOk(bal) == [balances |-> bal, ok |-> TRUE, rule |-> ""]

\* [balances, ok, rule] of a call that returned an error
InventoryErr(bal, rule) == [balances |-> bal, ok |-> FALSE, rule |-> rule]

deposit(bal, asset, amount) ==
    InventoryOk([or_insert(bal, asset) EXCEPT ![asset].total = @ + amount])

withdraw(bal, asset, amount) ==
    IF asset \notin DOMAIN bal THEN InventoryErr(bal, "UnknownAsset")
    ELSE IF available(bal[asset]) < amount
    THEN InventoryErr(bal, "Insufficient Funds")
    ELSE InventoryOk([bal EXCEPT ![asset].total = @ - amount])

\* the entry is inserted before the balance is tested
lock_funds(bal, asset, amount) ==
    LET entered == or_insert(bal, asset)
    IN IF available(entered[asset]) < amount
       THEN InventoryErr(entered, "Insufficient Balance for Order")
       ELSE InventoryOk([entered EXCEPT ![asset].locked = @ + amount])

\* seeded fault: the release is not clamped
release_unclamped(locked, amount) == locked - amount

\* what is left locked after amount is released: zero when less was locked
release(locked, amount) ==
    IF locked >= amount THEN locked - amount ELSE 0

unlock_funds(bal, asset, amount) ==
    IF asset \notin DOMAIN bal THEN InventoryErr(bal, "UnknownAsset")
    ELSE InventoryOk([bal EXCEPT ![asset].locked = release(@, amount)])

\* the Decimal quotient n / d for d > 0 and any n, exact
DecQuot(n, d) ==
    IF n < 0 THEN [num |-> -(DecDiv(-n, d).num), den |-> DecDiv(-n, d).den]
    ELSE DecDiv(n, d)

\* the paid leg of a settlement: total and locked of the asset go down
debit_leg(bal, asset, amount) ==
    [bal EXCEPT ![asset].total = @ - amount,
                ![asset].locked = release(@, amount)]

\* seeded fault: the received leg is not applied
credit_leg_dropped(bal, asset, amount) == bal

\* the received leg of a settlement
credit_leg(bal, asset, amount) ==
    [or_insert(bal, asset) EXCEPT ![asset].total = @ + amount]

\* (old_total * old_avg + qty * price) / (old_total + qty), kept while the
\* new total is not positive
weighted_entry_price(entry, qty, price, fee) ==
    IF entry.total + qty - fee > 0
    THEN DecQuot(entry.total * entry.avg_entry_price.num
                    + qty * price * entry.avg_entry_price.den,
                 entry.avg_entry_price.den * (entry.total + qty))
    ELSE entry.avg_entry_price

commit_trade(bal, base_asset, quote_asset, side, qty, price, fee) ==
    LET cost == qty * price
    IN IF side = "Bid"
       THEN IF quote_asset \notin DOMAIN bal THEN InventoryErr(bal, "Fatal")
            ELSE LET paid == or_insert(debit_leg(bal, quote_asset, cost),
                                       base_asset)
                     priced == [paid EXCEPT ![base_asset].avg_entry_price =
                                   weighted_entry_price(paid[base_asset], qty,
                                                        price, fee)]
                 IN InventoryOk(credit_leg(priced, base_asset, qty - fee))
       ELSE IF base_asset \notin DOMAIN bal THEN InventoryErr(bal, "Fatal")
            ELSE InventoryOk(credit_leg(debit_leg(bal, base_asset, qty),
                                        quote_asset, cost - fee))

\* InventoryManager::new
InventoryInit ==
    /\ balances = EmptyMap
    /\ inventory_call = [op |-> "new", ok |-> TRUE, rule |-> ""]

\* ------------------------------------------------------ risk: RiskEngine
MaxDailyLoss == 2
MaxOrderValue == 2

RiskConfigs == [max_daily_loss : 0..MaxDailyLoss, max_order_value : {MaxOrderValue}]

\* seeded fault: the daily-loss check lets a loss at the limit pass
daily_loss_reached_above(current_loss, max_daily_loss) ==
    current_loss > max_daily_loss

\* the daily-loss test of check_order
daily_loss_reached(current_loss, max_daily_loss) ==
    current_loss >= max_daily_loss

\* RiskEngine::new
RiskEngine_new(config) == [config |-> config, current_loss |-> 0]

\* returns [ok, rule, limit, actual]; price None counts as zero
check_order(engine, order) ==
    LET value == order.original_qty * order.price
    IN IF order.original_qty <= 0
       THEN [ok |-> FALSE, rule |-> "ValidationFailed", limit |-> "",
             actual |-> ""]
       ELSE IF value > engine.config.max_order_value
       THEN [ok |-> FALSE, rule |-> "Max Order Value",
             limit |-> ToString(engine.config.max_order_value),
             actual |-> ToString(value)]
       ELSE IF daily_loss_reached(engine.current_loss,
                                  engine.config.max_daily_loss)
       THEN [ok |-> FALSE, rule |-> "Max Daily Loss",
             limit |-> ToString(engine.config.max_daily_loss),
             actual |-> ToString(engine.current_loss)]
       ELSE [ok |-> TRUE, rule |-> "", limit |-> "", actual |-> ""]

\* main.rs builds the engine from RiskConfig::default(); the model starts
\* from the tightest configuration
RiskEngineInit == risk_engine = RiskEngine_new([max_daily_loss |-> 0,
                                                max_order_value |-> MaxOrderValue])

\* ---------------------------------------------- sentinel: PulseMonitor
MaxMs == 3
MaxSilence == 2

Components == {"MATCHING_ENGINE", "FAST_WORKER"}

\* seeded fault: the lag warning starts at the limit itself
lagging_from(limit) == limit

\* limit / 2 in u64: the silence above which a component is Lagging
lagging_above(limit) == limit \div 2

\* ComponentHealth of one registry entry at time t; Healthy is not reported
health(entry, t) ==
    IF t < entry.last_beat THEN [status |-> "Healthy", silence |-> 0]
    ELSE LET silence == t - entry.last_beat
         IN IF silence > entry.limit
            THEN [status |-> "Unresponsive", silence |-> silence]
            ELSE IF silence > lagging_above(entry.limit)
            THEN [status |-> "Lagging", silence |-> silence]
            ELSE [status |-> "Healthy", silence |-> 0]

\* the report, as the map from the reported names to their health: the Vec
\* lists them in the iteration order of the HashMap
check_system_health(reg, t) ==
    [name \in {n \in DOMAIN reg : health(reg[n], t).status # "Healthy"} |->
        health(reg[name], t)]

\* PulseMonitor::register
register(reg, name, max_silence_ms, t) ==
    PutKey(reg, name, [last_beat |-> t, limit |-> max_silence_ms])

\* PulseHandle::beat
beat(reg, name, t) == [reg EXCEPT ![name].last_beat = t]

\* PulseMonitor::new
PulseInit ==
    /\ registry = EmptyMap
    /\ now_ms = 0
    /\ pulse_call = [by |-> "new", report |-> EmptyMap]

\* ------------------------------------------ transport: SharedMemoryTransport
\* BUFFER_CAPACITY / size_of::<DataSlot>(), the number of slots of the ring
SlotCount == 3
\* the size of DataSlot.payload, 1024 bytes in the source
SlotBytes == 1
MaxSequence == 4

Bytes == {1, 2}
SlotIds == 0..(SlotCount - 1)

\* the byte strings handed to write_bytes, one byte longer than a slot at most
Payloads == UNION {[1..n -> Bytes] : n \in 0..(SlotBytes + 1)}

EmptySlot == [length |-> 0, payload |-> [i \in 1..SlotBytes |-> 0]]

too_large(data) == Len(data) > SlotBytes

next_slot(cursor) == (cursor + 1) % SlotCount

\* seeded fault: the ring is never found full
ring_full_never(next_write, current_read) == FALSE

ring_full(next_write, current_read) == next_write = current_read

\* ptr::copy_nonoverlapping: the first data.len() bytes of the payload are
\* replaced, the rest of the slot keeps what it held
copy_nonoverlapping(data, payload) ==
    [i \in 1..SlotBytes |-> IF i <= Len(data) THEN data[i] ELSE payload[i]]

Idle(outcome) ==
    [pc |-> "idle", data |-> <<>>, current_write |-> 0, next_write |-> 0,
     result |-> outcome, entry |-> <<>>]

\* SharedMemoryTransport::new(true): a zero-filled file and a fresh header
ShmInit ==
    /\ write_cursor = 0
    /\ read_cursor = 0
    /\ sequence = 0
    /\ slots = [i \in SlotIds |-> EmptySlot]
    /\ producer = Idle("none")
    /\ consumer = [seen_write |-> 0]
    /\ unread = {}

\* ------------------------------------------- buffers: EventQueueManager
MaxCapacity == 2
MaxPushes == 4

\* Duration::from_millis(100), the wait of push_safe, in ticks of 50 ms
TimeoutTicks == 2

Tasks == {1, 2}
IngestionEvents == {"MarketTick", "SystemSignal"}

\* the semaphore of the bounded channel: a permit is there while the channel
\* holds fewer events than mpsc::channel(capacity) allows
has_permit(held, bound) == Len(held) < bound

\* timeout(Duration::from_millis(100), ..): the deadline has passed
elapsed(waited) == waited >= TimeoutTicks

\* seeded fault: the counter is read and not advanced
fetch_add_lost(count) == count

\* AtomicUsize::fetch_add(1, Relaxed)
fetch_add(count) == count + 1

TaskIdle(outcome) == [pc |-> "idle", event |-> "", waited |-> 0, result |-> outcome]

\* EventQueueManager::new(capacity)
EventQueueInit ==
    /\ channel = <<>>
    /\ capacity = 1
    /\ enqueued_count = 0
    /\ dropped_count = 0
    /\ tasks = [t \in Tasks |-> TaskIdle("none")]
    /\ receiver_taken = FALSE

\* ---------------------------------------------------- models: Order
\* Order::update_execution: the weighted average price, the executed
\* quantity and the status after a fill of fill_qty at fill_price
update_execution(order, fill_qty, fill_price) ==
    LET avg == IF order.avg_fill_price = <<>>
               THEN DecDiv(0, 1) ELSE order.avg_fill_price[1]
        executed == order.executed_qty + fill_qty
    IN [order EXCEPT
           !.executed_qty = executed,
           !.avg_fill_price =
               IF executed # 0
               THEN <<DecDiv(order.executed_qty * avg.num
                                + fill_qty * fill_price * avg.den,
                             avg.den * executed)>>
               ELSE @,
           !.status = IF executed >= order.original_qty
                      THEN "Filled" ELSE "PartiallyFilled"]

OrderInit ==
    order_entity = [op |-> "new", order |-> Order_new(1, "Buy", "Limit", 1, 1)]

\* ---------------------------------------------- matching: LatencyTracker
MaxSamples == 3

\* the bucket limits of record, in nanoseconds
Micros1 == 1000
Micros10 == 10000
Micros100 == 100000
Millis1 == 1000000

Metrics == {"MatchingLogic", "RiskCheck"}
Durations == {0, 5, Micros1, Micros10, Micros100, Millis1}

\* LatencyBuckets::default()
LatencyBuckets_default ==
    [count |-> 0, min_ns |-> 0, max_ns |-> 0, sum_ns |-> 0, micros_1 |-> 0,
     micros_10 |-> 0, micros_100 |-> 0, millis_1 |-> 0, slow |-> 0]

\* the bucket a duration is counted in
bin(duration_ns) ==
    IF duration_ns < Micros1 THEN "micros_1"
    ELSE IF duration_ns < Micros10 THEN "micros_10"
    ELSE IF duration_ns < Micros100 THEN "micros_100"
    ELSE IF duration_ns < Millis1 THEN "millis_1"
    ELSE "slow"

\* LatencyTracker::record on the map of buckets
record(map, metric, duration_ns) ==
    LET bucket == IF metric \in DOMAIN map
                  THEN map[metric] ELSE LatencyBuckets_default
        counted == [bucket EXCEPT
                       !.count = @ + 1,
                       !.sum_ns = @ + duration_ns,
                       !.min_ns = IF @ = 0 \/ duration_ns < @
                                  THEN duration_ns ELSE @,
                       !.max_ns = IF duration_ns > @ THEN duration_ns ELSE @]
    IN PutKey(map, metric, [counted EXCEPT ![bin(duration_ns)] = @ + 1])

\* LatencyTracker::new
LatencyInit ==
    /\ stats = EmptyMap
    /\ samples = [metric \in Metrics |-> <<>>]

\* ------------------------------------------------------------ the machine
NoOrder == [id |-> 0, side |-> "Bid", order_type |-> "Limit",
            price |-> 0, quantity |-> 0]

Book == [bids |-> bids, asks |-> asks, index |-> order_index]

\* OrderBook::new
Init ==
    /\ bids = EmptyMap
    /\ asks = EmptyMap
    /\ order_index = EmptyMap
    /\ result = [op |-> "new", order |-> NoOrder, order_id |-> 0,
                 trades |-> <<>>, remaining_qty |-> 0, status |-> "Filled",
                 ok |-> FALSE]
    /\ open_qty = 0
    /\ EngInit
    /\ ReplayInit
    /\ RiskInit
    /\ GLOBAL_EMERGENCY_STOP = FALSE
    /\ BreakerInit
    /\ MatchEngineInit
    /\ InventoryInit
    /\ RiskEngineInit
    /\ PulseInit
    /\ ShmInit
    /\ EventQueueInit
    /\ OrderInit
    /\ LatencyInit
    /\ submitted = {}

TradeQty(trades) == SumSeq([i \in 1..Len(trades) |-> trades[i].quantity])

RECURSIVE LevelsOf(_, _)
LevelsOf(book, ps) ==
    IF ps = {} THEN <<>>
    ELSE LET p == CHOOSE x \in ps : \A y \in ps : x <= y
         IN book[p] \o LevelsOf(book, ps \ {p})

\* every resting order of a side, lowest price first, FIFO within a level
Resting(book) == LevelsOf(book, DOMAIN book)

ProcessOrder(order) ==
    \E r \in {process_order(Book, order)} :
       /\ Len(Resting(r.bids)) + Len(Resting(r.asks)) <= MaxResting
       /\ bids' = r.bids
       /\ asks' = r.asks
       /\ order_index' = r.index
       /\ result' = [op |-> "process_order", order |-> order,
                     order_id |-> order.id, trades |-> r.trades,
                     remaining_qty |-> r.remaining_qty,
                     status |-> r.status, ok |-> FALSE]
       /\ open_qty' = open_qty + order.quantity - 2 * TradeQty(r.trades)
       /\ UNCHANGED outside_book

CancelOrder(order_id) ==
    \E r \in {cancel_order(Book, order_id)} :
       /\ bids' = r.bids
       /\ asks' = r.asks
       /\ order_index' = r.index
       /\ result' = [op |-> "cancel_order", order |-> NoOrder,
                     order_id |-> order_id, trades |-> <<>>,
                     remaining_qty |-> 0, status |-> "Filled", ok |-> r.ok]
       /\ open_qty' = open_qty - r.removed
       /\ UNCHANGED outside_book

\* the orders the book is written for: process_order "assumes a regular
\* Limit" (order_book.rs:68-69)
LimitOrders == {o \in Order : o.order_type = "Limit"}

\* orders of the types that must not rest, beside Limit ones
NoRestTypes == {"Market", "ImmediateOrCancel"}
TypedOrders == {o \in Order : o.order_type \in NoRestTypes \cup {"Limit"}}

Next ==
    \/ \E order \in LimitOrders : ProcessOrder(order)
    \/ \E order_id \in OrderIds : CancelOrder(order_id)

Spec == Init /\ [][Next]_vars

NextTyped ==
    \/ \E order \in TypedOrders : ProcessOrder(order)
    \/ \E order_id \in OrderIds : CancelOrder(order_id)

SpecTyped == Init /\ [][NextTyped]_vars

\* Limit orders and FillOrKill ones
FokOrders == {o \in Order : o.order_type \in {"Limit", "FillOrKill"}}

NextFok ==
    \/ \E order \in FokOrders : ProcessOrder(order)
    \/ \E order_id \in OrderIds : CancelOrder(order_id)

SpecFok == Init /\ [][NextFok]_vars

\* the orders the gRPC handler builds: api/mod.rs, execute_order
EngOrders ==
    {Order_new(id, side, order_type, qty, price) :
        id \in OrderIds, side \in EngSide, order_type \in EngOrderType,
        qty \in Quantities, price \in Prices \cup {NoPrice}}

\* MatchingEngine::process_order
EngProcessOrder(order) ==
    \E r \in {eng_process([bids |-> eng_bids, asks |-> eng_asks], order)} :
       /\ Len(Resting(r.bids)) + Len(Resting(r.asks)) <= MaxResting
       /\ eng_bids' = r.bids
       /\ eng_asks' = r.asks
       /\ eng_result' = [op |-> "process_order", order |-> r.order,
                         trades |-> r.trades]
       /\ UNCHANGED outside_eng

NextEng == \E order \in EngOrders : EngProcessOrder(order)

SpecEng == Init /\ [][NextEng]_vars

\* the recorded run places an order: the book call, then the log entry
RecPlaceOrder(order) ==
    \E r \in {process_order(Book, order)} :
       /\ ~replayed.done
       /\ Len(cmd_log) < MaxLog
       /\ Len(Resting(r.bids)) + Len(Resting(r.asks)) <= MaxResting
       /\ bids' = r.bids
       /\ asks' = r.asks
       /\ order_index' = r.index
       /\ result' = [op |-> "process_order", order |-> order,
                     order_id |-> order.id, trades |-> r.trades,
                     remaining_qty |-> r.remaining_qty,
                     status |-> r.status, ok |-> FALSE]
       /\ open_qty' = open_qty + order.quantity - 2 * TradeQty(r.trades)
       /\ cmd_log' = Append(cmd_log, [kind |-> "PlaceOrder", order |-> order,
                                      order_id |-> order.id])
       /\ trade_stream' = trade_stream \o Stamped(r.trades, clock)
       /\ UNCHANGED <<clock, replayed, outside_replay>>

\* the recorded run cancels an order
RecCancelOrder(order_id) ==
    \E r \in {cancel_order(Book, order_id)} :
       /\ ~replayed.done
       /\ Len(cmd_log) < MaxLog
       /\ bids' = r.bids
       /\ asks' = r.asks
       /\ order_index' = r.index
       /\ result' = [op |-> "cancel_order", order |-> NoOrder,
                     order_id |-> order_id, trades |-> <<>>,
                     remaining_qty |-> 0, status |-> "Filled", ok |-> r.ok]
       /\ open_qty' = open_qty - r.removed
       /\ cmd_log' = Append(cmd_log, [kind |-> "CancelOrder", order |-> NoOrder,
                                      order_id |-> order_id])
       /\ UNCHANGED <<trade_stream, clock, replayed, outside_replay>>

\* time passes
Tick ==
    /\ clock < MaxClock
    /\ clock' = clock + 1
    /\ UNCHANGED <<book_vars, cmd_log, trade_stream, replayed, outside_replay>>

\* a fresh book is given the log; the recorded run is over
Replay ==
    /\ ~replayed.done
    /\ \E r \in {replay(cmd_log, [book |-> EmptyBook, trades |-> <<>>], clock)} :
          replayed' = [done |-> TRUE, book |-> r.book, trades |-> r.trades]
    /\ UNCHANGED <<book_vars, cmd_log, trade_stream, clock, outside_replay>>

NextReplay ==
    \/ \E order \in LimitOrders : RecPlaceOrder(order)
    \/ \E order_id \in OrderIds : RecCancelOrder(order_id)
    \/ Tick
    \/ Replay

SpecReplay == Init /\ [][NextReplay]_vars

\* a call of PreTradeCheck::validate
Validate(c, order, reference_price) ==
    /\ risk_call' = [op |-> "validate", constraints |-> c, order |-> order,
                     reference_price |-> reference_price,
                     out |-> validate(c, order, reference_price)]
    /\ UNCHANGED outside_risk

NextPreTrade ==
    \E c \in TradeConstraints : \E order \in RiskOrders :
        \E reference_price \in ReferencePrices :
            Validate(c, order, reference_price)

SpecPreTrade == Init /\ [][NextPreTrade]_vars

\* a call of MarginGuard::check_new_order
CheckNewOrder(config, equity, position_notional, order_notional) ==
    /\ risk_call' = [op |-> "check_new_order", config |-> config,
                     current_equity |-> equity,
                     current_position_notional |-> position_notional,
                     new_order_notional |-> order_notional,
                     out |-> check_new_order(config, equity, position_notional,
                                             order_notional)]
    /\ UNCHANGED outside_risk

NextMargin ==
    \E config \in MarginConfig : \E equity \in Equities :
        \E position_notional \in Notionals : \E order_notional \in Notionals :
            CheckNewOrder(config, equity, position_notional, order_notional)

SpecMargin == Init /\ [][NextMargin]_vars

BreakerState == [tripped |-> is_tripped, stop |-> GLOBAL_EMERGENCY_STOP,
               state |-> breaker]

\* what a call leaves in is_tripped, GLOBAL_EMERGENCY_STOP and the state
BreakerBecomes(st) ==
    /\ is_tripped' = st.tripped
    /\ GLOBAL_EMERGENCY_STOP' = st.stop
    /\ breaker' = st.state

\* a breaker is built from a loaded configuration; the kill switch is a
\* static and is not part of the breaker
BreakerNew(config) ==
    /\ breaker_config' = config
    /\ is_tripped' = CircuitBreaker_new(instant).tripped
    /\ breaker' = CircuitBreaker_new(instant).state
    /\ breaker_call' = [op |-> "new", ok |-> TRUE, rule |-> "", pnl |-> 0,
                        losses |-> 0]
    /\ UNCHANGED <<instant, GLOBAL_EMERGENCY_STOP, outside_breaker>>

RecordError ==
    /\ breaker.consecutive_errors < MaxErrors
    /\ BreakerBecomes(record_error(breaker_config, BreakerState, instant))
    /\ breaker_call' = [op |-> "record_error", ok |-> TRUE, rule |-> "",
                        pnl |-> 0, losses |-> breaker_call.losses]
    /\ UNCHANGED <<breaker_config, instant, outside_breaker>>

RecordPnl(pnl) ==
    \E st \in {record_pnl(breaker_config, BreakerState, pnl, instant)} :
       /\ st.state.accumulated_loss <= MaxLoss
       /\ BreakerBecomes(st)
       /\ breaker_call' = [op |-> "record_pnl", ok |-> TRUE, rule |-> "",
                           pnl |-> pnl,
                           losses |-> IF pnl < 0
                                      THEN Min(breaker_call.losses + 1, MaxErrors)
                                      ELSE 0]
       /\ UNCHANGED <<breaker_config, instant, outside_breaker>>

EnsureClosed ==
    /\ breaker_call' = [op |-> "ensure_closed", ok |-> ensure_closed(is_tripped).ok,
                        rule |-> ensure_closed(is_tripped).rule, pnl |-> 0,
                        losses |-> breaker_call.losses]
    /\ UNCHANGED <<breaker_config, is_tripped, breaker, instant,
                   GLOBAL_EMERGENCY_STOP, outside_breaker>>

ManualReset ==
    /\ BreakerBecomes(manual_reset(BreakerState, instant))
    /\ breaker_call' = [op |-> "manual_reset", ok |-> TRUE, rule |-> "",
                        pnl |-> 0, losses |-> 0]
    /\ UNCHANGED <<breaker_config, instant, outside_breaker>>

\* 30 s pass
BreakerTick ==
    /\ instant < MaxNow
    /\ instant' = instant + 1
    /\ UNCHANGED <<breaker_config, is_tripped, breaker, breaker_call,
                   GLOBAL_EMERGENCY_STOP, outside_breaker>>

NextBreaker ==
    \/ \E config \in BreakerConfigs : BreakerNew(config)
    \/ RecordError
    \/ \E pnl \in (-MaxPnl)..MaxPnl : RecordPnl(pnl)
    \/ EnsureClosed
    \/ ManualReset
    \/ BreakerTick

SpecBreaker == Init /\ [][NextBreaker]_vars

\* the orders resting in all the books of the facade
RestingInBooks(bks) ==
    IF DOMAIN bks = {} THEN 0
    ELSE SumSeq([i \in 1..Cardinality(SymbolIds) |->
                   IF i \in DOMAIN bks
                   THEN Len(Resting(bks[i].bids)) + Len(Resting(bks[i].asks))
                   ELSE 0])

CreateMarket(symbol_id) ==
    \E r \in {create_market(books, symbol_id)} :
       /\ books' = r.books
       /\ engine_call' = Returned("create_market", r.ok, r.err, <<>>)
       /\ UNCHANGED <<GLOBAL_EMERGENCY_STOP, outside_facade>>

PlaceLimitOrder(order) ==
    \E r \in {place_limit_order(books, order)} :
       /\ RestingInBooks(r.books) <= MaxResting
       /\ books' = r.books
       /\ engine_call' = Returned("place_limit_order", r.ok, r.err, r.trades)
       /\ UNCHANGED <<GLOBAL_EMERGENCY_STOP, outside_facade>>

EngineCancelOrder(symbol_id, order_id) ==
    \E r \in {MatchEngine_cancel_order(books, symbol_id, order_id)} :
       /\ books' = r.books
       /\ engine_call' = Returned("cancel_order", r.ok, r.err, <<>>)
       /\ UNCHANGED <<GLOBAL_EMERGENCY_STOP, outside_facade>>

\* trigger_emergency_stop, from the PANIC command or a tripping breaker
TriggerEmergencyStop ==
    /\ GLOBAL_EMERGENCY_STOP' = TRUE
    /\ UNCHANGED <<facade_vars, outside_facade>>

NextMatchEngine ==
    \/ \E symbol_id \in SymbolIds : CreateMarket(symbol_id)
    \/ \E order \in EngineOrders : PlaceLimitOrder(order)
    \/ \E symbol_id \in SymbolIds, order_id \in OrderIds :
          EngineCancelOrder(symbol_id, order_id)
    \/ TriggerEmergencyStop

SpecMatchEngine == Init /\ [][NextMatchEngine]_vars

\* a call on the InventoryManager that leaves r = [balances, ok, rule]
InventoryCall(op, r) ==
    /\ balances' = r.balances
    /\ inventory_call' = [op |-> op, ok |-> r.ok, rule |-> r.rule]
    /\ UNCHANGED outside_inventory

Deposit(asset, amount) ==
    \E r \in {deposit(balances, asset, amount)} :
       /\ r.balances[asset].total <= MaxAmount
       /\ InventoryCall("deposit", r)

LockFunds(asset, amount) ==
    \E r \in {lock_funds(balances, asset, amount)} :
       InventoryCall("lock_funds", r)

\* the requests of the rejection paths: orders that fail Order::validate,
\* that name a market that was not created, and sound ones
RejectOrders ==
    {o \in EngineOrders : o.id = 1 /\ o.price \in {-1, 1} /\ o.quantity <= 1}

\* one configuration of the validator, with orders inside and outside it
RejectConstraints == {c \in TradeConstraints : c.max_price_deviation = DecDiv(1, 1)}

RejectRiskOrders ==
    {o \in RiskOrders : o.order_type = "Limit" /\ o.price = 1 /\ o.quantity \in 0..2}

NextReject ==
    \/ \E symbol_id \in SymbolIds : CreateMarket(symbol_id)
    \/ \E order \in RejectOrders : PlaceLimitOrder(order)
    \/ \E asset \in Assets, amount \in 1..MaxAmount : Deposit(asset, amount)
    \/ \E asset \in Assets, amount \in 1..MaxAmount : LockFunds(asset, amount)
    \/ \E c \in RejectConstraints, order \in RejectRiskOrders :
          Validate(c, order, None)

SpecReject == Init /\ [][NextReject]_vars

\* the orders handed to RiskEngine::check_order, quantity zero included
RiskEngineOrders ==
    {Order_new(id, side, order_type, qty, price) :
        id \in {1}, side \in EngSide, order_type \in EngOrderType,
        qty \in 0..MaxQty, price \in Prices \cup {NoPrice}}

RiskEngineNew(config) ==
    /\ risk_engine' = RiskEngine_new(config)
    /\ risk_call' = [op |-> "RiskEngine::new"]
    /\ UNCHANGED outside_risk_engine

CheckOrder(order) ==
    /\ risk_call' = [op |-> "check_order", order |-> order,
                     out |-> check_order(risk_engine, order)]
    /\ UNCHANGED <<risk_engine, outside_risk_engine>>

NextRiskEngine ==
    \/ \E config \in RiskConfigs : RiskEngineNew(config)
    \/ \E order \in RiskEngineOrders : CheckOrder(order)

SpecRiskEngine == Init /\ [][NextRiskEngine]_vars

Register(name, max_silence_ms) ==
    /\ registry' = register(registry, name, max_silence_ms, now_ms)
    /\ UNCHANGED <<now_ms, pulse_call, GLOBAL_EMERGENCY_STOP, outside_pulse>>

Beat(name) ==
    /\ name \in DOMAIN registry
    /\ registry' = beat(registry, name, now_ms)
    /\ UNCHANGED <<now_ms, pulse_call, GLOBAL_EMERGENCY_STOP, outside_pulse>>

\* a caller runs the check
CheckSystemHealth ==
    /\ pulse_call' = [by |-> "caller",
                      report |-> check_system_health(registry, now_ms)]
    /\ UNCHANGED <<registry, now_ms, GLOBAL_EMERGENCY_STOP, outside_pulse>>

\* one turn of start_monitoring_loop after its sleep: the check runs and the
\* body of the loop over the issues is empty
WatchdogTick ==
    /\ pulse_call' = [by |-> "watchdog",
                      report |-> check_system_health(registry, now_ms)]
    /\ UNCHANGED <<registry, now_ms, GLOBAL_EMERGENCY_STOP, outside_pulse>>

\* a millisecond passes
ClockAdvance ==
    /\ now_ms < MaxMs
    /\ now_ms' = now_ms + 1
    /\ UNCHANGED <<registry, pulse_call, GLOBAL_EMERGENCY_STOP, outside_pulse>>

\* the wall clock is set back
ClockSetBack ==
    /\ now_ms > 0
    /\ now_ms' = now_ms - 1
    /\ UNCHANGED <<registry, pulse_call, GLOBAL_EMERGENCY_STOP, outside_pulse>>

NextPulse ==
    \/ \E name \in Components, max_silence_ms \in 0..MaxSilence :
          Register(name, max_silence_ms)
    \/ \E name \in Components : Beat(name)
    \/ CheckSystemHealth
    \/ WatchdogTick
    \/ ClockAdvance
    \/ ClockSetBack

SpecPulse == Init /\ [][NextPulse]_vars

\* the watchdog task is scheduled again and again
SpecPulseFair == SpecPulse /\ WF_vars(WatchdogTick)

Withdraw(asset, amount) ==
    \E r \in {withdraw(balances, asset, amount)} :
       InventoryCall("withdraw", r)

UnlockFunds(asset, amount) ==
    \E r \in {unlock_funds(balances, asset, amount)} :
       InventoryCall("unlock_funds", r)

\* a trade of a pair of two assets; the totals stay within the bound, below
\* zero as well, and the average
\* entry prices within the trade prices, with a bounded denominator
CommitTrade(base_asset, quote_asset, side, qty, price, fee) ==
    \E r \in {commit_trade(balances, base_asset, quote_asset, side, qty,
                           price, fee)} :
       /\ base_asset # quote_asset
       /\ \A asset \in DOMAIN r.balances :
             /\ r.balances[asset].total <= MaxAmount
             /\ r.balances[asset].total >= -MaxAmount
             /\ r.balances[asset].avg_entry_price.den <= MaxAvgDen
             /\ r.balances[asset].avg_entry_price.num >= 0
             /\ r.balances[asset].avg_entry_price.num
                   <= MaxTradePrice * r.balances[asset].avg_entry_price.den
       /\ InventoryCall("commit_trade", r)

NextInventory ==
    \/ \E asset \in Assets, amount \in 1..MaxAmount : Deposit(asset, amount)
    \/ \E asset \in Assets, amount \in 1..MaxAmount : Withdraw(asset, amount)
    \/ \E asset \in Assets, amount \in 1..MaxAmount : LockFunds(asset, amount)
    \/ \E asset \in Assets, amount \in 1..MaxAmount : UnlockFunds(asset, amount)
    \/ \E base_asset \in Assets, quote_asset \in Assets, side \in Side,
          qty \in 1..MaxAmount, price \in 1..MaxTradePrice, fee \in 0..MaxFee :
          CommitTrade(base_asset, quote_asset, side, qty, price, fee)

SpecInventory == Init /\ [][NextInventory]_vars

\* -------------------------------------------- SharedMemoryTransport, steps

\* what the ring leaves alone
outside_shm == <<book_vars, eng_vars, replay_vars, risk_call,
                 GLOBAL_EMERGENCY_STOP, breaker_vars, facade_vars,
                 inventory_vars, risk_engine, pulse_vars,
    queue_vars,
    order_vars,
    latency_vars,
    submitted>>

\* write_bytes, from the call to the load of write_cursor: the length test
\* and the first atomic load
WriteBytes(data) ==
    /\ producer.pc = "idle"
    /\ sequence < MaxSequence
    /\ producer' =
          IF too_large(data)
          THEN Idle("Err: Data too large for SHM slot")
          ELSE [pc |-> "check_full", data |-> data,
                current_write |-> write_cursor,
                next_write |-> next_slot(write_cursor),
                result |-> "pending",
                entry |-> <<write_cursor, sequence, slots>>]
    /\ UNCHANGED <<write_cursor, read_cursor, sequence, slots, consumer, unread>>
    /\ UNCHANGED outside_shm

\* the load of read_cursor and the test for a full ring
CheckFull ==
    /\ producer.pc = "check_full"
    /\ producer' =
          IF ring_full(producer.next_write, read_cursor)
          THEN [Idle("Err: SHM Ring Buffer Full") EXCEPT
                   !.entry = producer.entry]
          ELSE [producer EXCEPT !.pc = "write_length"]
    /\ UNCHANGED <<write_cursor, read_cursor, sequence, slots, consumer, unread>>
    /\ UNCHANGED outside_shm

\* (*slot_ptr).length = data.len()
WriteLength ==
    /\ producer.pc = "write_length"
    /\ slots' = [slots EXCEPT
                    ![producer.current_write].length = Len(producer.data)]
    /\ producer' = [producer EXCEPT !.pc = "copy"]
    /\ UNCHANGED <<write_cursor, read_cursor, sequence, consumer, unread>>
    /\ UNCHANGED outside_shm

CopyPayload ==
    /\ producer.pc = "copy"
    /\ slots' = [slots EXCEPT
                    ![producer.current_write].payload =
                        copy_nonoverlapping(producer.data, @)]
    /\ producer' = [producer EXCEPT !.pc = "fetch_add"]
    /\ UNCHANGED <<write_cursor, read_cursor, sequence, consumer, unread>>
    /\ UNCHANGED outside_shm

\* header.sequence.fetch_add(1)
BumpSequence ==
    /\ producer.pc = "fetch_add"
    /\ sequence' = sequence + 1
    /\ producer' = [producer EXCEPT !.pc = "store"]
    /\ UNCHANGED <<write_cursor, read_cursor, slots, consumer, unread>>
    /\ UNCHANGED outside_shm

\* header.write_cursor.store(next_write): the slot is published
StoreWriteCursor ==
    /\ producer.pc = "store"
    /\ write_cursor' = producer.next_write
    /\ unread' = unread \cup {producer.current_write}
    /\ producer' = Idle("Ok")
    /\ UNCHANGED <<read_cursor, sequence, slots, consumer>>
    /\ UNCHANGED outside_shm

\* the consumer loads write_cursor
ConsumerLoad ==
    /\ consumer' = [seen_write |-> write_cursor]
    /\ UNCHANGED <<write_cursor, read_cursor, sequence, slots, producer, unread>>
    /\ UNCHANGED outside_shm

\* the consumer, having seen a published slot at read_cursor, takes it and
\* stores the next read_cursor
ConsumerAdvance ==
    /\ read_cursor # consumer.seen_write
    /\ read_cursor' = next_slot(read_cursor)
    /\ unread' = unread \ {read_cursor}
    /\ UNCHANGED <<write_cursor, sequence, slots, producer, consumer>>
    /\ UNCHANGED outside_shm

NextShm ==
    \/ \E data \in Payloads : WriteBytes(data)
    \/ CheckFull
    \/ WriteLength
    \/ CopyPayload
    \/ BumpSequence
    \/ StoreWriteCursor
    \/ ConsumerLoad
    \/ ConsumerAdvance

SpecShm == Init /\ [][NextShm]_vars

\* ------------------------------------------------ EventQueueManager, steps
\* what the event queue leaves alone
outside_queue == <<book_vars, eng_vars, replay_vars, risk_call,
                   GLOBAL_EMERGENCY_STOP, breaker_vars, facade_vars,
                   inventory_vars, risk_engine, pulse_vars, shm_vars,
    order_vars,
    latency_vars,
    submitted>>

EventQueueNew(bound) ==
    /\ \A t \in Tasks : tasks[t].pc = "idle"
    /\ channel' = <<>>
    /\ capacity' = bound
    /\ enqueued_count' = 0
    /\ dropped_count' = 0
    /\ tasks' = [t \in Tasks |-> TaskIdle("none")]
    /\ receiver_taken' = FALSE
    /\ UNCHANGED outside_queue

\* push_safe, the first poll of timeout(.., sender.send(event)): the event
\* goes in when a permit is there, the task waits otherwise
PushSafe(t, event) ==
    /\ ~receiver_taken
    /\ tasks[t].pc = "idle"
    /\ enqueued_count + dropped_count < MaxPushes
    /\ IF has_permit(channel, capacity)
       THEN /\ channel' = Append(channel, event)
            /\ tasks' = [tasks EXCEPT ![t] =
                  [pc |-> "sent", event |-> event, waited |-> 0,
                   result |-> "pending"]]
       ELSE /\ channel' = channel
            /\ tasks' = [tasks EXCEPT ![t] =
                  [pc |-> "waiting", event |-> event, waited |-> 0,
                   result |-> "pending"]]
    /\ UNCHANGED <<capacity, enqueued_count, dropped_count, receiver_taken>>
    /\ UNCHANGED outside_queue

\* time passes for a task waiting in push_safe
Elapse(t) ==
    /\ tasks[t].pc = "waiting"
    /\ ~elapsed(tasks[t].waited)
    /\ tasks' = [tasks EXCEPT ![t].waited = @ + 1]
    /\ UNCHANGED <<channel, capacity, enqueued_count, dropped_count, receiver_taken>>
    /\ UNCHANGED outside_queue

\* the deadline of timeout() fires: the send is dropped, the event with it
GiveUp(t) ==
    /\ tasks[t].pc = "waiting"
    /\ elapsed(tasks[t].waited)
    /\ tasks' = [tasks EXCEPT ![t].pc = "timed_out"]
    /\ UNCHANGED <<channel, capacity, enqueued_count, dropped_count, receiver_taken>>
    /\ UNCHANGED outside_queue

\* push_fast: sender.try_send(event)
PushFast(t, event) ==
    /\ ~receiver_taken
    /\ tasks[t].pc = "idle"
    /\ enqueued_count + dropped_count < MaxPushes
    /\ IF has_permit(channel, capacity)
       THEN /\ channel' = Append(channel, event)
            /\ tasks' = [tasks EXCEPT ![t] =
                  [pc |-> "sent", event |-> event, waited |-> 0,
                   result |-> "pending"]]
       ELSE /\ channel' = channel
            /\ tasks' = [tasks EXCEPT ![t] =
                  [pc |-> "full", event |-> event, waited |-> 0,
                   result |-> "pending"]]
    /\ UNCHANGED <<capacity, enqueued_count, dropped_count, receiver_taken>>
    /\ UNCHANGED outside_queue

\* the Ok arm of either push: enqueued_count.fetch_add(1), Ok(())
CountEnqueued(t) ==
    /\ tasks[t].pc = "sent"
    /\ enqueued_count' = fetch_add(enqueued_count)
    /\ tasks' = [tasks EXCEPT ![t] = TaskIdle("Ok")]
    /\ UNCHANGED <<channel, capacity, dropped_count, receiver_taken>>
    /\ UNCHANGED outside_queue

\* the full arm of either push: dropped_count.fetch_add(1), Err(..)
CountDropped(t) ==
    /\ tasks[t].pc \in {"timed_out", "full"}
    /\ dropped_count' = fetch_add(dropped_count)
    /\ tasks' = [tasks EXCEPT ![t] =
          TaskIdle(IF tasks[t].pc = "full" THEN "QUEUE_FULL"
                                           ELSE "QUEUE_FULL_TIMEOUT")]
    /\ UNCHANGED <<channel, capacity, enqueued_count, receiver_taken>>
    /\ UNCHANGED outside_queue

\* take_receiver(mut self): the manager is consumed and its sender dropped,
\* the caller holds the receiver of the channel
TakeReceiver ==
    /\ ~receiver_taken
    /\ \A t \in Tasks : tasks[t].pc = "idle"
    /\ receiver_taken' = TRUE
    /\ UNCHANGED <<channel, capacity, enqueued_count, dropped_count, tasks>>
    /\ UNCHANGED outside_queue

\* Receiver::recv on the receiver take_receiver returned
Recv ==
    /\ receiver_taken
    /\ channel # <<>>
    /\ channel' = Tail(channel)
    /\ UNCHANGED <<capacity, enqueued_count, dropped_count, tasks, receiver_taken>>
    /\ UNCHANGED outside_queue

NextQueue ==
    \/ \E bound \in 1..MaxCapacity : EventQueueNew(bound)
    \/ \E t \in Tasks, event \in IngestionEvents : PushSafe(t, event)
    \/ \E t \in Tasks : Elapse(t)
    \/ \E t \in Tasks : GiveUp(t)
    \/ \E t \in Tasks, event \in IngestionEvents : PushFast(t, event)
    \/ \E t \in Tasks : CountEnqueued(t)
    \/ \E t \in Tasks : CountDropped(t)
    \/ TakeReceiver
    \/ Recv

SpecQueue == Init /\ [][NextQueue]_vars

\* ----------------------------------------------------- the two books, side by side
\* orders the exchange has acknowledged: status New
EngLiveOrders == {[order EXCEPT !.status = "New"] : order \in EngOrders}

\* a run drives one of the two books, the order_book.rs one or the engine.rs
\* one: they share no state
\* the engine.rs book is given orders as Order::new builds them and orders
\* whose status is New
NextBooks ==
    \/ /\ eng_result.op = "new"
       /\ \/ \E order \in LimitOrders : ProcessOrder(order)
          \/ \E order_id \in OrderIds : CancelOrder(order_id)
    \/ /\ result.op = "new"
       /\ \E order \in EngOrders \cup EngLiveOrders : EngProcessOrder(order)

SpecBooks == Init /\ [][NextBooks]_vars

\* ------------------------------------------------------- Order, calls
\* what an Order leaves alone
outside_order == <<book_vars, eng_vars, replay_vars, risk_call,
                   GLOBAL_EMERGENCY_STOP, breaker_vars, facade_vars,
                   inventory_vars, risk_engine, pulse_vars, shm_vars,
                   queue_vars,
    latency_vars,
    submitted>>

OrderNew(order) ==
    /\ order_entity' = [op |-> "new", order |-> order]
    /\ UNCHANGED outside_order

\* a fill reported for the order; the quantity executed is capped to keep
\* the model finite
UpdateExecution(fill_qty, fill_price) ==
    /\ order_entity.order.executed_qty + fill_qty <= MaxQty + 1
    /\ order_entity' =
          [op |-> "update_execution",
           order |-> update_execution(order_entity.order, fill_qty, fill_price)]
    /\ UNCHANGED outside_order

NextOrder ==
    \/ \E order \in EngOrders : OrderNew(order)
    \/ \E fill_qty \in Quantities, fill_price \in Prices :
          UpdateExecution(fill_qty, fill_price)

SpecOrder == Init /\ [][NextOrder]_vars

NextEngLive == \E order \in EngLiveOrders : EngProcessOrder(order)

SpecEngLive == Init /\ [][NextEngLive]_vars

\* -------------------------------------------------- LatencyTracker, calls
\* what the LatencyTracker leaves alone
outside_latency == <<book_vars, eng_vars, replay_vars, risk_call,
                     GLOBAL_EMERGENCY_STOP, breaker_vars, facade_vars,
                     inventory_vars, risk_engine, pulse_vars, shm_vars,
                     queue_vars, order_vars,
    submitted>>

LatencyTrackerNew ==
    /\ stats' = EmptyMap
    /\ samples' = [metric \in Metrics |-> <<>>]
    /\ UNCHANGED outside_latency

Record(metric, duration_ns) ==
    /\ Len(samples["MatchingLogic"]) + Len(samples["RiskCheck"]) < MaxSamples
    /\ stats' = record(stats, metric, duration_ns)
    /\ samples' = [samples EXCEPT ![metric] = Append(@, duration_ns)]
    /\ UNCHANGED outside_latency

NextLatency ==
    \/ LatencyTrackerNew
    \/ \E metric \in Metrics, duration_ns \in Durations :
          Record(metric, duration_ns)

SpecLatency == Init /\ [][NextLatency]_vars

\* ------------------------------------- order_book.rs, ids never reused
\* what these calls leave alone
outside_distinct == <<eng_vars, replay_vars, risk_call,
                      GLOBAL_EMERGENCY_STOP, breaker_vars, facade_vars,
                      inventory_vars, risk_engine, pulse_vars, shm_vars,
                      queue_vars, order_vars, latency_vars>>

DistinctOrders ==
    [id : 1..(MaxId + 1), side : Side, order_type : {"Limit"},
     price : Prices, quantity : Quantities]

\* OrderBook::process_order with an order whose id was never submitted
SubmitFresh(order) ==
    \E r \in {process_order(Book, order)} :
       /\ order.id \notin submitted
       /\ Len(Resting(r.bids)) + Len(Resting(r.asks)) <= MaxResting
       /\ bids' = r.bids
       /\ asks' = r.asks
       /\ order_index' = r.index
       /\ result' = [op |-> "process_order", order |-> order,
                     order_id |-> order.id, trades |-> r.trades,
                     remaining_qty |-> r.remaining_qty,
                     status |-> r.status, ok |-> FALSE]
       /\ open_qty' = open_qty + order.quantity - 2 * TradeQty(r.trades)
       /\ submitted' = submitted \cup {order.id}
       /\ UNCHANGED outside_distinct

\* OrderBook::cancel_order, for any id
CancelAny(order_id) ==
    \E r \in {cancel_order(Book, order_id)} :
       /\ bids' = r.bids
       /\ asks' = r.asks
       /\ order_index' = r.index
       /\ result' = [op |-> "cancel_order", order |-> NoOrder,
                     order_id |-> order_id, trades |-> <<>>,
                     remaining_qty |-> 0, status |-> "Filled", ok |-> r.ok]
       /\ open_qty' = open_qty - r.removed
       /\ UNCHANGED submitted
       /\ UNCHANGED outside_distinct

NextDistinct ==
    \/ \E order \in DistinctOrders : SubmitFresh(order)
    \/ \E order_id \in 1..(MaxId + 1) : CancelAny(order_id)

SpecDistinct == Init /\ [][NextDistinct]_vars

\* ============================================================== properties
LevelOf(book, p) == IF p \in DOMAIN book THEN book[p] ELSE <<>>

\* the side an order of side sd aggresses
Opposite(sd, b, a) == IF sd = "Bid" THEN a ELSE b

\* the side an order of side sd rests on
Own(sd, b, a) == IF sd = "Bid" THEN b ELSE a

TradesAt(trades, p) == SelectSeq(trades, LAMBDA t : t.price = p)

RestingQty(book) ==
    SumSeq([i \in 1..Len(Resting(book)) |-> Resting(book)[i].quantity])

BookEmpty == Resting(bids) = <<>> /\ Resting(asks) = <<>>

\* C1: whenever both sides hold orders, every resting bid is priced strictly
\* below every resting ask: the book is never crossed or locked at rest.
C1_NoCrossedBook ==
    \A b \in DOMAIN bids : \A a \in DOMAIN asks :
        (bids[b] # <<>> /\ asks[a] # <<>>) => b < a

\* a crossing order traded, its remainder rests, and both sides hold orders
C1_Witness ==
    /\ result.op = "process_order"
    /\ result.trades # <<>>
    /\ result.remaining_qty > 0
    /\ Resting(bids) # <<>>
    /\ Resting(asks) # <<>>

\* C2: the trades one call makes at one price go against that level's queue
\* from its head, in arrival order, each maker fully consumed before the
\* next is touched; the orders behind the last maker keep their place and
\* their quantity.
C2_TimePriorityStep ==
    result'.op = "process_order" =>
        LET o == result'.order
            pre == Opposite(o.side, bids, asks)
            post == Opposite(o.side, bids', asks')
        IN \A p \in Prices :
             LET tp == TradesAt(result'.trades, p)
                 n == Len(tp)
             IN n > 0 =>
                  /\ n <= Len(LevelOf(pre, p))
                  /\ \A i \in 1..n :
                        /\ tp[i].maker_order_id = pre[p][i].id
                        /\ tp[i].quantity <= pre[p][i].quantity
                        /\ i < n => tp[i].quantity = pre[p][i].quantity
                  /\ LET behind == SubSeq(pre[p], n + 1, Len(pre[p]))
                         left == pre[p][n].quantity - tp[n].quantity
                     IN LevelOf(post, p) =
                           IF left = 0 THEN behind
                           ELSE <<[pre[p][n] EXCEPT !.quantity = left]>> \o behind

C2_TimePriority == [][C2_TimePriorityStep]_vars

\* one trade was made and an order that stood behind the maker still rests
\* at the trade's price
C2_Witness ==
    /\ result.op = "process_order"
    /\ Len(result.trades) = 1
    /\ result.remaining_qty = 0
    /\ LET lvl == LevelOf(Opposite(result.order.side, bids, asks),
                          result.trades[1].price)
       IN /\ Len(lvl) = 1
          /\ lvl[1].id # result.trades[1].maker_order_id

\* sd-taker: price x is strictly better for the taker than price y
Better(sd, x, y) == IF sd = "Bid" THEN x < y ELSE x > y

\* C3: the trades of one call run from the best opposite price to worse
\* ones, never beyond the taker's limit; a level is left only when it is
\* used up, and matching goes on while the taker has quantity and a level
\* within the limit remains.
C3_BestPriceFirstStep ==
    result'.op = "process_order" =>
        LET o == result'.order
            t == result'.trades
            pre == Opposite(o.side, bids, asks)
            post == Opposite(o.side, bids', asks')
        IN /\ \A k \in 1..Len(t) :
                /\ ~Better(o.side, o.price, t[k].price)
                /\ k > 1 => ~Better(o.side, t[k].price, t[k - 1].price)
                /\ \A q \in DOMAIN pre :
                      Better(o.side, q, t[k].price) => LevelOf(post, q) = <<>>
           /\ result'.remaining_qty > 0 =>
                \A q \in DOMAIN post :
                    post[q] # <<>> => Better(o.side, o.price, q)

C3_BestPriceFirst == [][C3_BestPriceFirstStep]_vars

\* a sweep: two trades at two prices, the second level partly left
C3_Witness ==
    /\ result.op = "process_order"
    /\ Len(result.trades) = 2
    /\ result.trades[1].price # result.trades[2].price
    /\ LevelOf(Opposite(result.order.side, bids, asks),
               result.trades[2].price) # <<>>

\* C4: every trade is priced at the price of the resting order it hit: the
\* level the maker stood in, which is the maker's own price.
C4_MakerPriceStep ==
    result'.op = "process_order" =>
        LET o == result'.order
            pre == Opposite(o.side, bids, asks)
        IN \A k \in 1..Len(result'.trades) :
             LET t == result'.trades[k]
             IN \E p \in DOMAIN pre : \E i \in 1..Len(pre[p]) :
                   /\ pre[p][i].id = t.maker_order_id
                   /\ pre[p][i].price = t.price
                   /\ p = t.price

C4_MakerPrice == [][C4_MakerPriceStep]_vars

\* price improvement: a trade strictly inside the taker's limit
C4_Witness ==
    /\ result.op = "process_order"
    /\ \E k \in 1..Len(result.trades) :
          Better(result.order.side, result.trades[k].price, result.order.price)

\* C5: the quantity submitted, less what cancel_order removed, less twice
\* the quantity traded, is exactly what rests: every trade took its quantity
\* from the taker and from the maker; and no order rests with nothing left.
C5_Conservation ==
    /\ open_qty = RestingQty(bids) + RestingQty(asks)
    /\ \A i \in 1..Len(Resting(bids)) : Resting(bids)[i].quantity > 0
    /\ \A i \in 1..Len(Resting(asks)) : Resting(asks)[i].quantity > 0

\* a taker and a maker of equal size met: the book is empty again
C5_Witness ==
    /\ result.op = "process_order"
    /\ result.trades # <<>>
    /\ result.remaining_qty = 0
    /\ BookEmpty

\* every place of the book: side, level, position in the level's queue
Places ==
    {pl \in Side \X Prices \X (1..MaxResting) :
        /\ pl[2] \in DOMAIN Own(pl[1], bids, asks)
        /\ pl[3] <= Len(Own(pl[1], bids, asks)[pl[2]])}

OrderAt(pl) == Own(pl[1], bids, asks)[pl[2]][pl[3]]

\* the places that hold an order with this id
Holders(id) == {pl \in Places : OrderAt(pl).id = id}

\* C6: every id of the index is the id of exactly one resting order, which
\* stands on the side and in the level the index entry records.
C6_IndexResolves ==
    \A id \in DOMAIN order_index :
        /\ Cardinality(Holders(id)) = 1
        /\ \A pl \in Holders(id) :
              /\ pl[1] = order_index[id].side
              /\ pl[2] = order_index[id].price

\* C7: cancel_order returns true exactly when an order with the id rested
\* before the call; then the index entry and one order with that id are
\* gone and every other order keeps its place and its quantity.
C7_CancelStep ==
    result'.op = "cancel_order" =>
        LET id == result'.order_id
        IN /\ result'.ok <=> Holders(id) # {}
           /\ result'.ok =>
                /\ order_index' = RemoveKey(order_index, id)
                /\ \E pl \in Holders(id) :
                      LET own == Own(pl[1], bids, asks)
                          own2 == IF Len(own[pl[2]]) = 1
                                  THEN RemoveKey(own, pl[2])
                                  ELSE [own EXCEPT ![pl[2]] = RemoveAt(@, pl[3])]
                      IN /\ Own(pl[1], bids', asks') = own2
                         /\ Opposite(pl[1], bids', asks') = Opposite(pl[1], bids, asks)

C7_CancelIffResting == [][C7_CancelStep]_vars

\* C8: cancelling an id that does not rest returns false and changes
\* nothing, and so does a cancel that repeats a successful one; after a
\* failed cancel the book still takes an order.
C8_CancelMissStep ==
    result'.op = "cancel_order" =>
        /\ Holders(result'.order_id) = {} =>
              /\ ~result'.ok
              /\ UNCHANGED <<bids, asks, order_index>>
        /\ (/\ result.op = "cancel_order"
            /\ result.ok
            /\ result.order_id = result'.order_id) =>
              /\ ~result'.ok
              /\ UNCHANGED <<bids, asks, order_index>>

C9_NoRestTypesNeverRest ==
    /\ \A pl \in Places : OrderAt(pl).order_type \notin NoRestTypes
    /\ (/\ result.op = "process_order"
        /\ result.order.order_type \in NoRestTypes
        /\ result.order.quantity > TradeQty(result.trades)) =>
          /\ result.status = "Cancelled"
          /\ result.order.id \notin DOMAIN order_index

\* C10: a Limit order that was not fully matched rests with its remainder
\* at the tail of the level of its own price, the rest of its side as it
\* was, with its id in the index; it is reported Queued after no trade and
\* PartiallyFilled after one, with the resting quantity as remaining_qty.
C10_RestStep ==
    (/\ result'.op = "process_order"
     /\ result'.order.order_type = "Limit"
     /\ result'.order.quantity > TradeQty(result'.trades)) =>
        LET o == result'.order
            left == o.quantity - TradeQty(result'.trades)
            pre == Own(o.side, bids, asks)
            post == Own(o.side, bids', asks')
        IN /\ result'.remaining_qty = left
           /\ o.price \in DOMAIN post
           /\ post[o.price] = Append(LevelOf(pre, o.price),
                                     [o EXCEPT !.quantity = left])
           /\ \A p \in DOMAIN pre \ {o.price} : LevelOf(post, p) = pre[p]
           /\ o.id \in DOMAIN order_index'
           /\ order_index'[o.id] = [price |-> o.price, side |-> o.side]
           /\ result'.status =
                 IF result'.trades = <<>> THEN "Queued" ELSE "PartiallyFilled"

C10_LimitRemainderRests == [][C10_RestStep]_vars

\* a partly filled taker: its remainder is the last order of its level
C10_Witness ==
    /\ result.op = "process_order"
    /\ result.status = "PartiallyFilled"
    /\ result.remaining_qty > 0
    /\ LET lvl == LevelOf(Own(result.order.side, bids, asks), result.order.price)
       IN /\ lvl # <<>>
          /\ lvl[Len(lvl)] =
                [result.order EXCEPT !.quantity = result.remaining_qty]

\* the quantity resting on the side book within the limit of order o
Liquidity(o, book) ==
    LET within == {p \in DOMAIN book : ~Better(o.side, o.price, p)}
        r == LevelsOf(book, within)
    IN SumSeq([i \in 1..Len(r) |-> r[i].quantity])

\* C11: a FillOrKill order that the liquidity within its limit cannot fill
\* completely is Rejected and changes nothing: no trade, every level, queue
\* and index entry as before the call, nothing of the order resting.
C11_FokStep ==
    (/\ result'.op = "process_order"
     /\ result'.order.order_type = "FillOrKill"
     /\ Liquidity(result'.order,
                  Opposite(result'.order.side, bids, asks)) < result'.order.quantity) =>
        /\ result'.status = "Rejected"
        /\ result'.trades = <<>>
        /\ UNCHANGED <<bids, asks, order_index>>

C11_FokAtomic == [][C11_FokStep]_vars

\* C12: no book of MatchingEngine holds a bid priced at or above an ask: a
\* Limit order built with Order::new whose price reaches the best opposite
\* price trades against it instead of resting beside it.
C12_EngineNoCross ==
    \A b \in DOMAIN eng_bids : \A a \in DOMAIN eng_asks : b < a

\* C13: the replay of the recorded commands on an empty book ends with the
\* book of the recorded run (levels, queues, quantities, index) and with
\* its trade stream: same takers, makers, prices, quantities and
\* timestamps, in the same order.
C13_ReplayDeterminism ==
    replayed.done =>
        /\ replayed.book = Book
        /\ replayed.trades = trade_stream

\* the call recorded in risk_call passed the checks that come before the
\* upper notional limit: sanity, quantity band, dust limit
PassedToNotional ==
    LET o == risk_call.order
        c == risk_call.constraints
    IN /\ o.quantity > 0
       /\ o.order_type = "Limit" => o.price > 0
       /\ c.min_quantity <= o.quantity
       /\ o.quantity <= c.max_quantity

\* the notional of the claim: the limit price, or the reference price for a
\* market order, times the quantity
ClaimNotional ==
    LET o == risk_call.order
    IN IF o.order_type = "Limit" THEN o.price * o.quantity
       ELSE risk_call.reference_price[1] * o.quantity

\* C17: an order that reaches the notional check with a notional above
\* max_notional is rejected by a violation that names the fat-finger rule
\* and carries limit = max_notional and actual = the notional.
C17_FatFinger ==
    (/\ risk_call.op = "validate"
     /\ risk_call.order.order_type = "Market" => risk_call.reference_price # None
     /\ PassedToNotional
     /\ ClaimNotional > risk_call.constraints.max_notional) =>
        /\ ~risk_call.out.ok
        /\ risk_call.out.rule = "FAT_FINGER"
        /\ risk_call.out.limit = ToString(risk_call.constraints.max_notional)
        /\ risk_call.out.actual = ToString(ClaimNotional)

\* C18: a Limit order with a reference price above zero that passed the
\* earlier checks is rejected exactly when |price - ref| / ref is greater
\* than max_price_deviation, a deviation equal to the limit passing; the
\* violation is PRICE_BAND with the limit and the deviation as its data.
C18_PriceBand ==
    (/\ risk_call.op = "validate"
     /\ risk_call.order.order_type = "Limit"
     /\ risk_call.reference_price # None
     /\ risk_call.reference_price[1] > 0
     /\ PassedToNotional
     /\ risk_call.constraints.min_notional <= ClaimNotional
     /\ ClaimNotional <= risk_call.constraints.max_notional) =>
        LET o == risk_call.order
            ref == risk_call.reference_price[1]
            lim == risk_call.constraints.max_price_deviation
            over == Abs(o.price - ref) * lim.den > lim.num * ref
        IN /\ ~risk_call.out.ok <=> over
           /\ over =>
                /\ risk_call.out.rule = "PRICE_BAND"
                /\ risk_call.out.limit = ToString(lim)
                /\ risk_call.out.actual =
                      ToString(DecDiv(Abs(o.price - ref), ref))

\* a Limit order whose deviation is exactly the limit was accepted
C18_Witness ==
    /\ risk_call.op = "validate"
    /\ risk_call.order.order_type = "Limit"
    /\ risk_call.reference_price # None
    /\ risk_call.reference_price[1] > 0
    /\ risk_call.order.price # risk_call.reference_price[1]
    /\ Abs(risk_call.order.price - risk_call.reference_price[1])
          * risk_call.constraints.max_price_deviation.den
       = risk_call.constraints.max_price_deviation.num
          * risk_call.reference_price[1]
    /\ risk_call.out.ok

\* C19: check_new_order accepts exactly when the equity is not zero and
\* (current_position_notional + new_order_notional) / equity is at most
\* max_global_leverage: leverage equal to the maximum is accepted, more is
\* refused as a leverage violation, zero equity is always refused.
C19_Leverage ==
    risk_call.op = "check_new_order" =>
        LET e == risk_call.current_equity
            n == risk_call.current_position_notional
                    + risk_call.new_order_notional
            max == risk_call.config.max_global_leverage
            within == IF e > 0 THEN n <= max * e ELSE n >= max * e
        IN /\ risk_call.out.ok <=> (e # 0 /\ within)
           /\ (e # 0 /\ ~within) => risk_call.out.rule = "MAX_LEVERAGE_EXCEEDED"
           /\ e = 0 => ~risk_call.out.ok

\* an order that brings the leverage exactly to the maximum was accepted
C19_Witness ==
    /\ risk_call.op = "check_new_order"
    /\ risk_call.current_equity > 0
    /\ risk_call.new_order_notional > 0
    /\ risk_call.current_position_notional + risk_call.new_order_notional
          = risk_call.config.max_global_leverage * risk_call.current_equity
    /\ risk_call.out.ok

\* C20: a record_error call adds one to consecutive_errors and trips an
\* untripped breaker exactly when the count reaches max_consecutive_errors;
\* an untripped breaker always has fewer than max_consecutive_errors errors
\* in its streak; ensure_closed succeeds exactly while the breaker is not
\* tripped and otherwise rejects with CIRCUIT_BREAKER_TRIPPED; a record_pnl
\* call with a non-negative pnl sets the streak back to zero.
C20_Step ==
    /\ RecordError =>
          /\ breaker'.consecutive_errors = breaker.consecutive_errors + 1
          /\ ~is_tripped =>
                (is_tripped' <=> breaker'.consecutive_errors
                                   = breaker_config.max_consecutive_errors)
          /\ is_tripped => is_tripped'
    /\ \A pnl \in 0..MaxPnl :
          RecordPnl(pnl) => breaker'.consecutive_errors = 0
    /\ EnsureClosed =>
          /\ breaker_call'.ok <=> ~is_tripped
          /\ ~breaker_call'.ok => breaker_call'.rule = "CIRCUIT_BREAKER_TRIPPED"

C20_ErrorStorm ==
    /\ [][C20_Step]_vars
    /\ [](~is_tripped =>
             breaker.consecutive_errors < breaker_config.max_consecutive_errors)

\* C20 witness: a streak of two errors, the limit, has tripped a breaker that
\* lost nothing, and the ensure_closed that follows is rejected
C20_Witness ==
    /\ breaker_call.op = "ensure_closed"
    /\ ~breaker_call.ok
    /\ breaker_config.max_consecutive_errors = 2
    /\ breaker.consecutive_errors = 2
    /\ breaker.accumulated_loss = 0
    /\ is_tripped

\* C14: the log records of the MatchEngine are numbered 1, 2, 3, ... and
\* every order that one of its books holds has a PlaceOrder record in the
\* log: no book reflects a command that was not logged first.
C14_WalBeforeBook ==
    /\ \A i \in 1..Len(wal) : wal[i].seq = i
    /\ \A symbol_id \in DOMAIN books :
          \A order_id \in DOMAIN books[symbol_id].index :
             \E i \in 1..Len(wal) :
                /\ wal[i].kind = "PlaceOrder"
                /\ wal[i].payload.id = order_id

\* C16: a place_limit_order call made while GLOBAL_EMERGENCY_STOP is set
\* returns the rejection CIRCUIT_TRIPPED, whatever the order, and leaves
\* every book as it was.
C16_Step ==
    (GLOBAL_EMERGENCY_STOP /\ \E order \in EngineOrders : PlaceLimitOrder(order))
       => /\ ~engine_call'.ok
          /\ engine_call'.err = "CIRCUIT_TRIPPED"
          /\ books' = books

C16_KillSwitch == [][C16_Step]_vars

\* C15: a place_limit_order call that returns an error, a validate call
\* that returns a violation and a lock_funds call that is refused leave the
\* books with their indexes and the balances, entries and values, exactly as
\* they were, and produce no trade.
C15_IsRejection ==
    \/ /\ \E order \in EngineOrders : PlaceLimitOrder(order)
       /\ ~engine_call'.ok
    \/ /\ \E c \in TradeConstraints, order \in RiskOrders,
             reference_price \in ReferencePrices :
                Validate(c, order, reference_price)
       /\ ~risk_call'.out.ok
    \/ /\ \E asset \in Assets, amount \in 1..MaxAmount : LockFunds(asset, amount)
       /\ ~inventory_call'.ok

C15_Step ==
    C15_IsRejection =>
       /\ books' = books
       /\ <<bids, asks, order_index>>' = <<bids, asks, order_index>>
       /\ balances' = balances
       /\ engine_call' = engine_call \/ engine_call'.trades = <<>>

C15_RejectMutatesNothing == [][C15_Step]_vars

\* C21: a record_pnl call that arrives more than 60 s after window_start
\* first sets window_start to now and the accumulated loss to zero; it then
\* adds the absolute value of a negative pnl and nothing for a gain, and
\* trips an untripped breaker exactly when the pnl is a loss and the
\* accumulated loss is strictly above max_drawdown_per_minute.
C21_Step ==
    \A pnl \in (-MaxPnl)..MaxPnl :
       RecordPnl(pnl) =>
          LET expired == instant - breaker.window_start > WindowTicks
              carried == IF expired THEN 0 ELSE breaker.accumulated_loss
              loss == IF pnl < 0 THEN -pnl ELSE 0
          IN /\ breaker'.window_start =
                   IF expired THEN instant ELSE breaker.window_start
             /\ breaker'.accumulated_loss = carried + loss
             /\ ~is_tripped =>
                   (is_tripped' <=>
                       /\ pnl < 0
                       /\ carried + loss > breaker_config.max_drawdown_per_minute)
             /\ is_tripped => is_tripped'

C21_Drawdown == [][C21_Step]_vars

\* C21 witness: losses in a window that began after the first one expired
\* add up to exactly the limit of 2 and the breaker is still closed
C21_Witness ==
    /\ breaker_call.op = "record_pnl"
    /\ breaker_call.pnl < 0
    /\ breaker_config.max_drawdown_per_minute = 2
    /\ breaker.accumulated_loss = 2
    /\ breaker.window_start > WindowTicks
    /\ breaker.status = "Closed"
    /\ breaker.last_trip_time = None
    /\ ~is_tripped

\* C22: a record_error or record_pnl call that crosses its threshold leaves
\* is_tripped set; while is_tripped is set every ensure_closed is rejected;
\* and is_tripped stays set across every call on the breaker and every
\* passage of time, manual_reset alone excepted.
C22_Crosses ==
    \/ /\ RecordError
       /\ breaker.consecutive_errors + 1 >= breaker_config.max_consecutive_errors
    \/ \E pnl \in (-MaxPnl)..(-1) :
          /\ RecordPnl(pnl)
          /\ breaker'.accumulated_loss > breaker_config.max_drawdown_per_minute

C22_Step ==
    /\ C22_Crosses => is_tripped'
    /\ (EnsureClosed /\ is_tripped) => ~breaker_call'.ok
    /\ (is_tripped /\ (RecordError \/ EnsureClosed \/ BreakerTick
                          \/ \E pnl \in (-MaxPnl)..MaxPnl : RecordPnl(pnl)))
          => is_tripped'

C22_TripPersists == [][C22_Step]_vars

\* C22 witness: more than a window after the trip, with the streak and the
\* loss both back at zero, ensure_closed is still rejected
C22_Witness ==
    /\ breaker_call.op = "ensure_closed"
    /\ ~breaker_call.ok
    /\ is_tripped
    /\ breaker.last_trip_time # None
    /\ instant - breaker.last_trip_time[1] > WindowTicks
    /\ breaker.consecutive_errors = 0
    /\ breaker.accumulated_loss = 0

\* C23: a manual_reset of a tripped breaker leaves it Closed with the
\* accumulated loss and the error streak at zero and with no halt flag of
\* the trip still set: neither is_tripped nor GLOBAL_EMERGENCY_STOP.
C23_Step ==
    (ManualReset /\ is_tripped) =>
       /\ breaker'.status = "Closed"
       /\ breaker'.accumulated_loss = 0
       /\ breaker'.consecutive_errors = 0
       /\ ~is_tripped'
       /\ ~GLOBAL_EMERGENCY_STOP'

C23_ResetRestores == [][C23_Step]_vars

\* C24: once the cooldown has elapsed since the trip, a call that consults
\* an Open breaker (ensure_closed, or a record_pnl with a gain) does not
\* leave it Open: it is HalfOpen, or Closed again after the success.
C24_Step ==
    (/\ breaker.status = "Open"
     /\ instant - breaker.last_trip_time[1] > breaker_config.cooldown_period
     /\ EnsureClosed \/ \E pnl \in 0..MaxPnl : RecordPnl(pnl))
       => breaker'.status \in {"HalfOpen", "Closed"}

C24_HalfOpen == [][C24_Step]_vars

\* C25: a check_order call on an order that passes the quantity and the
\* order-value checks passes while the session loss is at most the
\* configured maximum, a loss exactly at the limit included, and fails with
\* a drawdown-limit error when the loss is strictly above it.
C25_DrawdownLimit ==
    (/\ risk_call.op = "check_order"
     /\ risk_call.out.rule \notin {"ValidationFailed", "Max Order Value"})
       => /\ risk_call.out.ok <=>
                risk_engine.current_loss <= risk_engine.config.max_daily_loss
          /\ ~risk_call.out.ok => risk_call.out.rule = "DRAWDOWN_LIMIT"

\* C29: a health check reports, from silence = now - last_beat, exactly the
\* registered components whose silence is above half their limit:
\* Unresponsive with the silence when it is above the limit, Lagging with
\* the silence otherwise; a component that has just beaten is Healthy and
\* not reported.
C29_Step ==
    (CheckSystemHealth \/ WatchdogTick) =>
       \A name \in Components :
          LET reported == name \in DOMAIN pulse_call'.report
          IN IF name \notin DOMAIN registry THEN ~reported
             ELSE LET silence == now_ms - registry[name].last_beat
                      limit == registry[name].limit
                  IN /\ silence > limit =>
                           /\ reported
                           /\ pulse_call'.report[name] =
                                 [status |-> "Unresponsive", silence |-> silence]
                     /\ (2 * silence > limit /\ silence <= limit) =>
                           /\ reported
                           /\ pulse_call'.report[name] =
                                 [status |-> "Lagging", silence |-> silence]
                     /\ 2 * silence <= limit => ~reported
                     /\ silence = 0 => ~reported

C29_Classified == [][C29_Step]_vars

\* C29 witness: one check reports a component silent for 2 ms against a
\* limit of 1 ms as Unresponsive and another, silent for 1 ms against the
\* same limit, as Lagging
C29_Witness ==
    /\ pulse_call.by = "caller"
    /\ DOMAIN pulse_call.report = Components
    /\ pulse_call.report["FAST_WORKER"] =
          [status |-> "Unresponsive", silence |-> 2]
    /\ pulse_call.report["MATCHING_ENGINE"] =
          [status |-> "Lagging", silence |-> 1]
    /\ registry["FAST_WORKER"].limit = 1
    /\ registry["MATCHING_ENGINE"].limit = 1

\* C30: a registered component that is silent for longer than its limit
\* and stays so leads to the global kill switch being set.
C30_SilentTooLong(name) ==
    /\ name \in DOMAIN registry
    /\ now_ms - registry[name].last_beat > registry[name].limit

C30_WatchdogStops ==
    \A name \in Components :
       C30_SilentTooLong(name) ~>
          (GLOBAL_EMERGENCY_STOP \/ ~C30_SilentTooLong(name))

\* C26: every balance has total >= locked >= 0, so that available is never
\* negative.
C26_TotalCoversLocked ==
    \A asset \in DOMAIN balances :
       /\ balances[asset].total >= balances[asset].locked
       /\ balances[asset].locked >= 0

\* C27: unlock_funds on an asset that has a balance returns Ok and leaves
\* locked at zero when the amount is above what is locked and lower by
\* exactly the amount otherwise; the total of the asset and the other
\* balances are unchanged. The release of the paid leg of commit_trade does
\* the same and leaves the assets outside the trade unchanged.
C27_Left(locked, amount) == IF amount > locked THEN 0 ELSE locked - amount

C27_Step ==
    /\ \A asset \in Assets, amount \in 1..MaxAmount :
          (UnlockFunds(asset, amount) /\ asset \in DOMAIN balances) =>
             /\ inventory_call'.ok
             /\ balances'[asset].locked =
                   C27_Left(balances[asset].locked, amount)
             /\ balances'[asset].locked >= 0
             /\ balances' = [balances EXCEPT
                                ![asset].locked = balances'[asset].locked]
    /\ \A base_asset \in Assets, quote_asset \in Assets, side \in Side,
          qty \in 1..MaxAmount, price \in 1..MaxTradePrice, fee \in 0..MaxFee :
          (/\ CommitTrade(base_asset, quote_asset, side, qty, price, fee)
           /\ inventory_call'.ok) =>
             LET paid == IF side = "Bid" THEN quote_asset ELSE base_asset
                 due == IF side = "Bid" THEN qty * price ELSE qty
             IN /\ balances'[paid].locked = C27_Left(balances[paid].locked, due)
                /\ balances'[paid].locked >= 0
                /\ \A asset \in DOMAIN balances \ {base_asset, quote_asset} :
                      balances'[asset] = balances[asset]

C27_ForcedUnlock == [][C27_Step]_vars

\* C27 witness: an unlock_funds call has returned Ok and left nothing locked
\* on USD, with its total and the lock on BTC as they were
C27_Witness ==
    /\ inventory_call = [op |-> "unlock_funds", ok |-> TRUE, rule |-> ""]
    /\ "USD" \in DOMAIN balances
    /\ balances["USD"].locked = 0
    /\ balances["USD"].total = 1
    /\ "BTC" \in DOMAIN balances
    /\ balances["BTC"].locked = 1

\* C28: a commit_trade call that returns an error leaves every balance as it
\* was; one that returns Ok has applied both legs: the paid asset's total is
\* lower by the amount due and the received asset's total is higher by the
\* amount received less the fee.
C28_Total(bal, asset) == IF asset \in DOMAIN bal THEN bal[asset].total ELSE 0

C28_Step ==
    \A base_asset \in Assets, quote_asset \in Assets, side \in Side,
       qty \in 1..MaxAmount, price \in 1..MaxTradePrice, fee \in 0..MaxFee :
       CommitTrade(base_asset, quote_asset, side, qty, price, fee) =>
          LET paid == IF side = "Bid" THEN quote_asset ELSE base_asset
              received == IF side = "Bid" THEN base_asset ELSE quote_asset
              due == IF side = "Bid" THEN qty * price ELSE qty
              got == IF side = "Bid" THEN qty ELSE qty * price
          IN IF inventory_call'.ok
             THEN /\ balances'[paid].total = balances[paid].total - due
                  /\ received \in DOMAIN balances'
                  /\ balances'[received].total =
                        C28_Total(balances, received) + got - fee
             ELSE /\ balances' = balances
                  /\ paid \notin DOMAIN balances

C28_BothLegs == [][C28_Step]_vars

\* C28 witness: a sale of 1 BTC at 2 with fee 1 took the BTC and credited
\* 1 USD to a balance that did not exist before
C28_Witness ==
    /\ inventory_call = [op |-> "commit_trade", ok |-> TRUE, rule |-> ""]
    /\ DOMAIN balances = {"BTC", "USD"}
    /\ balances["BTC"].total = 0
    /\ balances["USD"].total = 1
    /\ balances["USD"].avg_entry_price = DecDiv(0, 1)

\* C31: with one producer in write_bytes and one consumer advancing
\* read_cursor, a slot that was published and not yet consumed is never
\* written; a call that finds the ring full or the data too large returns an
\* error and leaves write_cursor, sequence and the slots as they were when it
\* was entered; write_cursor stays within [0, slot_count).
C31_Step ==
    /\ \A i \in SlotIds : slots'[i] # slots[i] => i \notin unread
    /\ (CheckFull /\ next_slot(write_cursor) = read_cursor) =>
          /\ producer'.result = "Err: SHM Ring Buffer Full"
          /\ producer'.pc = "idle"
    /\ (producer'.pc = "idle" /\ producer'.result \notin {"Ok", "none"}) =>
          /\ <<write_cursor', sequence', slots'>> =
                <<write_cursor, sequence, slots>>
          /\ producer.pc = "check_full" =>
                <<write_cursor', sequence', slots'>> = producer.entry
    /\ write_cursor' \in SlotIds

C31_NeverOverwrites == [][C31_Step]_vars

\* C31 witness: the ring holds slot_count - 1 unread slots, the cursor has
\* wrapped, and a write has just been refused as full
C31_Witness ==
    /\ producer.result = "Err: SHM Ring Buffer Full"
    /\ Cardinality(unread) = SlotCount - 1
    /\ write_cursor < read_cursor
    /\ sequence >= SlotCount

\* C32: a push into a full queue ends in bounded time and the queue never
\* holds more than capacity events: push_safe waits no longer than its
\* timeout and then returns QUEUE_FULL_TIMEOUT, push_fast returns QUEUE_FULL
\* without waiting, each of these failed pushes adds exactly one to
\* dropped_count and each successful push exactly one to enqueued_count.
C32_Full == Len(channel) >= capacity

C32_Step ==
    /\ Len(channel') <= capacity'
    /\ \A t \in Tasks :
          /\ tasks'[t].waited <= TimeoutTicks
          /\ \A event \in IngestionEvents :
                /\ (PushFast(t, event) /\ C32_Full) => tasks'[t].pc = "full"
                /\ (PushSafe(t, event) /\ C32_Full) => tasks'[t].pc = "waiting"
          /\ (tasks[t].pc = "waiting" /\ tasks'[t].pc # "waiting") =>
                /\ tasks[t].waited = TimeoutTicks
                /\ tasks'[t].pc = "timed_out"
          /\ (tasks[t].pc = "timed_out" /\ tasks'[t] # tasks[t]) =>
                /\ tasks'[t] = TaskIdle("QUEUE_FULL_TIMEOUT")
                /\ dropped_count' = dropped_count + 1
                /\ enqueued_count' = enqueued_count
          /\ (tasks[t].pc = "full" /\ tasks'[t] # tasks[t]) =>
                /\ tasks'[t] = TaskIdle("QUEUE_FULL")
                /\ dropped_count' = dropped_count + 1
                /\ enqueued_count' = enqueued_count
          /\ (tasks[t].pc = "sent" /\ tasks'[t] # tasks[t]) =>
                /\ tasks'[t] = TaskIdle("Ok")
                /\ enqueued_count' = enqueued_count + 1
                /\ dropped_count' = dropped_count
    /\ ((\A t \in Tasks : tasks[t].pc = tasks'[t].pc \/ tasks'[t].pc # "idle")
          /\ ~(\E bound \in 1..MaxCapacity : EventQueueNew(bound))) =>
          /\ enqueued_count' = enqueued_count
          /\ dropped_count' = dropped_count

C32_Backpressure == [][C32_Step]_vars

\* C32 witness: with capacity 2 and nothing received, two pushes went in and
\* two were dropped, the last by push_safe after its wait
C32_Witness ==
    /\ capacity = 2
    /\ Len(channel) = 2
    /\ enqueued_count = 2
    /\ dropped_count = 2
    /\ tasks[1].result = "QUEUE_FULL_TIMEOUT"
    /\ tasks[2].result = "QUEUE_FULL"

\* C33: no price level with an empty queue exists in bids or asks of either
\* book after process_order or cancel_order returns.
C33_NoEmptyLevel ==
    /\ \A price \in DOMAIN bids : bids[price] # <<>>
    /\ \A price \in DOMAIN asks : asks[price] # <<>>
    /\ \A price \in DOMAIN eng_bids : eng_bids[price] # <<>>
    /\ \A price \in DOMAIN eng_asks : eng_asks[price] # <<>>

\* C33 witness: the only resting order was cancelled and its level went
\* with it
C33_Witness ==
    /\ result.op = "cancel_order"
    /\ result.ok
    /\ bids = EmptyMap
    /\ asks = EmptyMap
    /\ order_index = EmptyMap

\* C34: every order has 0 <= executed_qty <= original_qty and is Filled
\* exactly when executed_qty = original_qty, and no fill is applied to an
\* order that is Filled, Canceled or Rejected.
C34_Step ==
    /\ LET order == order_entity'.order
       IN /\ 0 <= order.executed_qty
          /\ order.executed_qty <= order.original_qty
          /\ order.status = "Filled" <=>
                order.executed_qty = order.original_qty
    /\ (order_entity'.op = "update_execution" /\ order_entity' # order_entity)
          => order_entity.order.status \notin {"Filled", "Canceled", "Rejected"}

C34_ExecutedWithinOriginal == [][C34_Step]_vars

\* C35: for every order the MatchingEngine has processed, avg_fill_price is
\* set and > 0 exactly when executed_qty > 0.
C35_Priced(order) ==
    (order.avg_fill_price # <<>> /\ order.avg_fill_price[1].num > 0)
       <=> order.executed_qty > 0

C35_AvgFillPrice ==
    /\ C35_Priced(eng_result.order)
    /\ \A i \in 1..Len(Resting(eng_bids)) : C35_Priced(Resting(eng_bids)[i])
    /\ \A i \in 1..Len(Resting(eng_asks)) : C35_Priced(Resting(eng_asks)[i])

\* C36: every trade a call on the MatchEngine returns has quantity > 0 and
\* price > 0.
C36_TradePositive ==
    \A i \in 1..Len(engine_call.trades) :
       /\ engine_call.trades[i].quantity > 0
       /\ engine_call.trades[i].price > 0

\* C37: once as many losing trade results in a row are recorded as the
\* configured limit of consecutive events allows, the breaker is tripped and
\* the permission check fails.
C37_Step ==
    \A pnl \in (-MaxPnl)..MaxPnl :
       (RecordPnl(pnl) /\ ~is_tripped) =>
          (breaker_call'.losses >= breaker_config.max_consecutive_errors =>
              /\ is_tripped'
              /\ ~ensure_closed(is_tripped').ok)

C37_LosingStreak == [][C37_Step]_vars

\* C38: for every metric, each recorded sample is counted in the bucket of
\* its range, count is the sum of the five buckets, sum_ns is the sum of the
\* samples, and min_ns and max_ns are the smallest and the largest sample.
C38_InBin(recorded, name) ==
    Len(SelectSeq(recorded, LAMBDA d : bin(d) = name))

C38_Histogram ==
    \A metric \in Metrics :
       LET recorded == samples[metric]
       IN IF recorded = <<>> THEN metric \notin DOMAIN stats
          ELSE LET bucket == stats[metric]
               IN /\ bucket.micros_1 = C38_InBin(recorded, "micros_1")
                  /\ bucket.micros_10 = C38_InBin(recorded, "micros_10")
                  /\ bucket.micros_100 = C38_InBin(recorded, "micros_100")
                  /\ bucket.millis_1 = C38_InBin(recorded, "millis_1")
                  /\ bucket.slow = C38_InBin(recorded, "slow")
                  /\ bucket.count = bucket.micros_1 + bucket.micros_10
                        + bucket.micros_100 + bucket.millis_1 + bucket.slow
                  /\ bucket.count = Len(recorded)
                  /\ bucket.sum_ns = SumSeq(recorded)
                  /\ \A i \in 1..Len(recorded) :
                        /\ bucket.min_ns <= recorded[i]
                        /\ bucket.max_ns >= recorded[i]
                  /\ \E i \in 1..Len(recorded) : bucket.min_ns = recorded[i]
                  /\ \E i \in 1..Len(recorded) : bucket.max_ns = recorded[i]

\* C39: while the submitted order ids are pairwise distinct, the ids of the
\* orders resting in bids and asks are exactly the keys of order_index, and
\* cancel_order succeeds for every order that is resting.
C39_RestingIds(bid_side, ask_side) ==
    {Resting(bid_side)[i].id : i \in 1..Len(Resting(bid_side))}
       \cup {Resting(ask_side)[i].id : i \in 1..Len(Resting(ask_side))}

C39_Step ==
    /\ C39_RestingIds(bids', asks') = DOMAIN order_index'
    /\ \A order_id \in 1..(MaxId + 1) :
          (CancelAny(order_id) /\ order_id \in C39_RestingIds(bids, asks)) =>
             /\ result'.ok
             /\ order_id \notin C39_RestingIds(bids', asks')

C39_ReachableById == [][C39_Step]_vars

\* C39 witness: of three orders one was filled, one has just been cancelled
\* and one still rests
C39_Witness ==
    /\ submitted = 1..(MaxId + 1)
    /\ result.op = "cancel_order"
    /\ result.ok
    /\ Cardinality(DOMAIN order_index) = 1

\* C40: every call to OrderBook::process_order and to
\* MatchingEngine::process_order ends, and the trades of one call are at most
\* the orders that rested on the opposite side before the call: every trade
\* but the last removes a resting order, and a trade that removes none has
\* exhausted the taker.
C40_Bound(trades, before, after, exhausted) ==
    /\ Len(trades) <= Len(Resting(before))
    /\ Len(trades) <= Len(Resting(before)) - Len(Resting(after)) + 1
    /\ Len(trades) = Len(Resting(before)) - Len(Resting(after)) + 1 => exhausted

C40_Step ==
    /\ (result'.op = "process_order" /\ <<bids, asks, result>>' # <<bids, asks, result>>) =>
          IF result'.order.side = "Bid"
          THEN C40_Bound(result'.trades, asks, asks', result'.remaining_qty = 0)
          ELSE C40_Bound(result'.trades, bids, bids', result'.remaining_qty = 0)
    /\ (eng_result'.op = "process_order"
          /\ <<eng_bids, eng_asks, eng_result>>' # <<eng_bids, eng_asks, eng_result>>) =>
          IF eng_result'.order.side = "Buy"
          THEN C40_Bound(eng_result'.trades, eng_asks, eng_asks',
                         eng_result'.order.status = "Filled")
          ELSE C40_Bound(eng_result'.trades, eng_bids, eng_bids',
                         eng_result'.order.status = "Filled")

C40_BoundedTrades == [][C40_Step]_vars

\* C40 witness: one call traded against two resting orders and emptied the
\* opposite side
C40_Witness ==
    /\ result.op = "process_order"
    /\ Len(result.trades) = 2
    /\ result.trades[1].maker_order_id # result.trades[2].maker_order_id
    /\ IF result.order.side = "Bid" THEN asks = <<>> ELSE bids = <<>>

\* C40 witness on the engine.rs book: a call of MatchingEngine::process_order
\* that traded twice
C40_EngWitness ==
    /\ eng_result.op = "process_order"
    /\ Len(eng_result.trades) = 2

====
